---- MODULE Spec2Model ----
(***************************************************************************)
(* Response-size management and overflow store of garmin-connect-mcp:      *)
(* utils.py (estimate_json_size, is_large_field, split_large_response,     *)
(* response_size_guard, the cursor codec, with_retry, cached,               *)
(* handle_api_errors), cache.py (OverflowDataCache) and, of main.py, the    *)
(* resource reader, the overflow callback, the listings, the tool dispatch  *)
(* and the authentication of the session.                                   *)
(***************************************************************************)
EXTENDS Integers, Sequences, FiniteSets, TLC

VARIABLES
    cache,              \* OverflowDataCache._cache: cache_id -> entry
    locked,             \* OverflowDataCache._cache_lock is held
    now,                \* datetime.now(), in seconds
    ticks,              \* number of clock advances so far
    pc,                 \* per task: position inside a store/get/cleanup_expired call
    op,                 \* per task: the call in progress and its arguments
    ret,                \* per task: the last completed call and what it returned
    activity_context,   \* GarminConnectMCP._activity_context
    call,               \* the last guarded call / split / resource read and its outcome
    page,               \* a client paging through a listing, and utils._cache
    unswept,            \* the overflow store as it would be had no sweep ever run
    phase,              \* per cache id: "absent", "stored" or "gone"
    retry,              \* one call of a function wrapped by with_retry
    response_cache,     \* utils._cache: cache_key -> entry, and the calls made through it
    session             \* GarminConnectMCP: garmin_client, _last_auth_time, _auth_lock

\* the state of the decorators and of the server object
server == <<retry, response_cache, session>>

vars == <<cache, locked, now, ticks, pc, op, ret, activity_context, call,
          page, unswept, phase, retry, response_cache, session>>

----------------------------------------------------------------------------
(* Bounds of the model *)

NumTasks == 2
MaxTicks == 2
NumSuffixes == 2
MaxEntries == 1
MaxFields == 2
MaxStateKeys == 2
MaxItems == 5
MaxLimit == 3
MaxAttempts == 3
MaxCalls == 2

(* Program constants *)

MaxBytes == 800000
DiversionThreshold == 50000
DefaultTTL == 3600

----------------------------------------------------------------------------
(* Strings *)

UpperAlpha == "ABCDEFGHIJKLMNOPQRSTUVWXYZ"
LowerAlpha == "abcdefghijklmnopqrstuvwxyz"

LowerMap ==
    [c \in {SubSeq(UpperAlpha, i, i) : i \in 1..26} |->
        SubSeq(LowerAlpha, CHOOSE j \in 1..26 : SubSeq(UpperAlpha, j, j) = c,
                           CHOOSE j \in 1..26 : SubSeq(UpperAlpha, j, j) = c)]

\* str.lower() of one character
LowerChar(c) == IF c \in DOMAIN LowerMap THEN LowerMap[c] ELSE c

RECURSIVE LowerFrom(_, _)
LowerFrom(s, i) ==
    IF i > Len(s) THEN ""
    ELSE LowerChar(SubSeq(s, i, i)) \o LowerFrom(s, i + 1)

\* str.lower()
Lower(s) == LowerFrom(s, 1)

\* Python's `p in s` on strings
Contains(s, p) ==
    \E i \in 1..(Len(s) - Len(p) + 1) : SubSeq(s, i, i + Len(p) - 1) = p

\* str.startswith
StartsWith(s, p) == Len(s) >= Len(p) /\ SubSeq(s, 1, Len(p)) = p

RECURSIVE Digits(_)
\* number of characters of str(n), n >= 0
Digits(n) == IF n < 10 THEN 1 ELSE 1 + Digits(n \div 10)

----------------------------------------------------------------------------
(* JSON values.  A payload is an opaque JSON document identified by `id`   *)
(* whose compact serialization is `size` bytes long.                       *)

JStr(s)        == [t |-> "str", s |-> s]
JInt(n)        == [t |-> "int", n |-> n]
\* Python None / JSON null
JNull          == [t |-> "null"]
JObj(id, size) == [t |-> "obj", id |-> id, size |-> size]
\* a JSON array (not a dict) of the given serialized size
JList(id, size) == [t |-> "list", id |-> id, size |-> size]
\* a Python object json.dumps cannot serialize
JUnser(id)     == [t |-> "unser", id |-> id]
JMap(fields)   == [t |-> "map", fields |-> fields]
JStrList(l)    == [t |-> "strlist", l |-> l]

(* dict: insertion-ordered sequence of <<key, value>> fields *)

DictKeys(d) == [i \in 1..Len(d) |-> d[i].k]
DictHas(d, k) == \E i \in 1..Len(d) : d[i].k = k
DictGet(d, k) == d[CHOOSE i \in 1..Len(d) : d[i].k = k].v
\* d[k] = v: an existing key keeps its position
DictSet(d, k, v) ==
    IF DictHas(d, k)
    THEN [i \in 1..Len(d) |-> IF d[i].k = k THEN [k |-> k, v |-> v] ELSE d[i]]
    ELSE Append(d, [k |-> k, v |-> v])

RECURSIVE Serializable(_)
\* json.dumps(v) does not raise
Serializable(v) ==
    CASE v.t = "unser" -> FALSE
      [] v.t = "map"   -> \A i \in 1..Len(v.fields) : Serializable(v.fields[i].v)
      [] OTHER         -> TRUE

RECURSIVE SumLenFrom(_, _)
SumLenFrom(l, i) == IF i > Len(l) THEN 0 ELSE Len(l[i]) + 2 + SumLenFrom(l, i + 1)

\* total length of the quoted strings of a list
SumLen(l) == SumLenFrom(l, 1)

Commas(n) == IF n = 0 THEN 0 ELSE n - 1

RECURSIVE JsonLen(_)
RECURSIVE FieldsLenFrom(_, _)
\* len(json.dumps(v, ensure_ascii=False, separators=(',', ':')).encode('utf-8'))
JsonLen(v) ==
    CASE v.t = "str"     -> Len(v.s) + 2
      [] v.t = "int"     -> Digits(v.n)
      [] v.t = "null"    -> 4
      [] v.t = "obj"     -> v.size
      [] v.t = "list"    -> v.size
      [] v.t = "strlist" -> 2 + SumLen(v.l) + Commas(Len(v.l))
      [] v.t = "map"     -> 2 + FieldsLenFrom(v.fields, 1) + Commas(Len(v.fields))
      [] OTHER           -> 0

\* "key":value for the fields i.. of a dict, separators not counted
FieldsLenFrom(d, i) ==
    IF i > Len(d) THEN 0
    ELSE Len(d[i].k) + 2 + 1 + JsonLen(d[i].v) + FieldsLenFrom(d, i + 1)

SizeOnFailure_partial(v) == JsonLen(v)

\* the except branch of estimate_json_size: the error is logged, 0 is returned
SizeOnFailure(v) == 0

\* utils.estimate_json_size: 0 when serialization fails
estimate_json_size(v) == IF Serializable(v) THEN JsonLen(v) ELSE SizeOnFailure(v)

----------------------------------------------------------------------------
(* utils.is_large_field *)

large_field_patterns ==
    << "raw_", "full_", "detailed_", "complete_",
       "activity_details", "metric_descriptors",
       "activity_detail_metrics", "gps_", "chart_" >>

\* any(pattern in key.lower() for pattern in large_field_patterns)
MatchesPattern(key) ==
    \E lk \in {Lower(key)} :
        \E i \in 1..Len(large_field_patterns) : Contains(lk, large_field_patterns[i])

\* the field names of the model's inputs, with the verdict computed once
InputKeys == {"summary", "raw_details", "raw_details_note", "GPS_track",
              "_overflow_info", "RAW_details"}
MatchTable == [k \in InputKeys |-> MatchesPattern(k)]

NameMatches(key) == IF key \in InputKeys THEN MatchTable[key] ELSE MatchesPattern(key)

SizeExceeds_atleast(size, threshold_bytes) == size >= threshold_bytes

SizeExceeds(size, threshold_bytes) == size > threshold_bytes

is_large_field(key, value, threshold_bytes) ==
    IF NameMatches(key)
    THEN IF value # JNull
         THEN SizeExceeds(estimate_json_size(value), threshold_bytes)
         ELSE FALSE
    ELSE FALSE

----------------------------------------------------------------------------
(* cache.OverflowDataCache *)

EmptyCache == [k \in {} |-> k]

CachePut(c, k, e) == [x \in (DOMAIN c) \cup {k} |-> IF x = k THEN e ELSE c[x]]
CacheDel(c, k)    == [x \in (DOMAIN c) \ {k} |-> c[x]]

CacheId(activity_id, field_name, hex) ==
    activity_id \o "_" \o field_name \o "_" \o hex

UriOf(cache_id) == "overflow://" \o cache_id

\* body of OverflowDataCache.store, under the lock; hex is uuid4().hex[:8]
StoreBody(c, activity_id, field_name, data, ttl_seconds, t, hex) ==
    LET cache_id == CacheId(activity_id, field_name, hex)
        entry == [data |-> data, expires_at |-> t + ttl_seconds,
                  activity_id |-> activity_id, field_name |-> field_name]
    IN  [cache |-> CachePut(c, cache_id, entry), uri |-> UriOf(cache_id)]

IsExpired_inclusive(t, expires_at) == t >= expires_at

\* datetime.now() > entry['expires_at']
IsExpired(t, expires_at) == t > expires_at

\* body of OverflowDataCache.get, under the lock
GetBody(c, cache_id, t) ==
    IF cache_id \notin DOMAIN c
    THEN [cache |-> c, data |-> JNull]
    ELSE IF IsExpired(t, c[cache_id].expires_at)
         THEN [cache |-> CacheDel(c, cache_id), data |-> JNull]
         ELSE [cache |-> c, data |-> c[cache_id].data]

ExpiredKeys_inclusive(c, t) == {k \in DOMAIN c : t >= c[k].expires_at}

\* keys collected by cleanup_expired before it deletes them
ExpiredKeys(c, t) == {k \in DOMAIN c : IsExpired(t, c[k].expires_at)}

cleanup_expired_one(c, t) ==
    LET expired == ExpiredKeys(c, t) IN
    [cache |-> IF expired = {} THEN c ELSE CacheDel(c, CHOOSE k \in expired : TRUE),
     expired |-> expired, value |-> JNull]

\* body of OverflowDataCache.cleanup_expired, under the lock: every key of
\* `expired` is deleted; the function has no return statement, its value is None
cleanup_expired(c, t) ==
    LET expired == ExpiredKeys(c, t) IN
    [cache |-> [k \in (DOMAIN c) \ expired |-> c[k]],
     expired |-> expired, value |-> JNull]

----------------------------------------------------------------------------
(* main.GarminConnectMCP._create_overflow_resource.  `loop` is the state   *)
(* of the thread's event loop at the call: "running" (called from a        *)
(* coroutine), "idle" (a loop exists or can be created, and is not         *)
(* running) or "none" (asyncio.get_event_loop() has no loop to return).    *)

Raise(exc) == [kind |-> "raise", exc |-> exc]

ContextActivityId(ctx) ==
    IF DictHas(ctx, "activity_id") THEN DictGet(ctx, "activity_id") ELSE "unknown"

create_overflow_resource(ctx, field_name, data, loop, c, t, hex) ==
    LET activity_id == ContextActivityId(ctx) IN
    CASE loop = "none"    -> Raise("RuntimeError") @@ [cache |-> c]
      [] loop = "running" -> Raise("RuntimeError") @@ [cache |-> c]
      [] OTHER ->
            LET s == StoreBody(c, activity_id, field_name, data, DefaultTTL, t, hex)
            IN  [kind |-> "return", uri |-> s.uri, cache |-> s.cache]

----------------------------------------------------------------------------
(* utils.split_large_response.  cb is the create_resource_callback:        *)
(* [present |-> FALSE] for None, else the bound method above together with *)
(* the environment it runs in.                                             *)

NoteText(uri) ==
    "Data moved to resource due to size. Use " \o uri \o " to access."

OmittedText(size) ==
    "Field omitted due to size (" \o ToString(size) \o " bytes)"

OverflowInfo_swapped(overflow_fields, current_size, result) ==
    [t |-> "map", fields |-> <<
        [k |-> "fields_moved", v |-> JStrList(DictKeys(overflow_fields))],
        [k |-> "original_size_bytes", v |-> JInt(estimate_json_size(JMap(result)))],
        [k |-> "reduced_size_bytes", v |-> JInt(current_size)] >>]

OverflowInfo(overflow_fields, current_size, result) ==
    [t |-> "map", fields |-> <<
        [k |-> "fields_moved", v |-> JStrList(DictKeys(overflow_fields))],
        [k |-> "original_size_bytes", v |-> JInt(current_size)],
        [k |-> "reduced_size_bytes", v |-> JInt(estimate_json_size(JMap(result)))] >>]

SplitStep_keep(key, value, cb, st) ==
    IF is_large_field(key, value, DiversionThreshold)
    THEN
      IF cb.present
      THEN
        LET r == create_overflow_resource(cb.ctx, key, value, cb.loop, st.cache, cb.now,
                                          cb.hex[Len(st.overflow_fields) + 1])
        IN
        IF r.kind = "raise"
        THEN [kind |-> "raise", exc |-> r.exc, result |-> st.result,
              overflow_fields |-> DictSet(st.overflow_fields, key, value),
              cache |-> r.cache]
        ELSE [kind |-> "loop",
              result |-> DictSet(DictSet(DictSet(st.result, key, value),
                                         key \o "_resource", JStr(r.uri)),
                                 key \o "_note", JStr(NoteText(r.uri))),
              overflow_fields |-> DictSet(st.overflow_fields, key, value),
              cache |-> r.cache]
      ELSE [kind |-> "loop",
            result |-> DictSet(DictSet(st.result, key, value), key \o "_omitted",
                               JStr(OmittedText(estimate_json_size(value)))),
            overflow_fields |-> DictSet(st.overflow_fields, key, value),
            cache |-> st.cache]
    ELSE [kind |-> "loop", result |-> DictSet(st.result, key, value),
          overflow_fields |-> st.overflow_fields, cache |-> st.cache]

\* one iteration of the for loop over data.items(), lines 600-612; st is
\* [kind, result, overflow_fields, cache] (and exc once the callback raised)
SplitStep(key, value, cb, st) ==
    IF is_large_field(key, value, DiversionThreshold)
    THEN
      IF cb.present
      THEN
        LET r == create_overflow_resource(cb.ctx, key, value, cb.loop, st.cache, cb.now,
                                          cb.hex[Len(st.overflow_fields) + 1])
        IN
        IF r.kind = "raise"
        THEN [kind |-> "raise", exc |-> r.exc, result |-> st.result,
              overflow_fields |-> DictSet(st.overflow_fields, key, value),
              cache |-> r.cache]
        ELSE [kind |-> "loop",
              result |-> DictSet(DictSet(st.result, key \o "_resource", JStr(r.uri)),
                                 key \o "_note", JStr(NoteText(r.uri))),
              overflow_fields |-> DictSet(st.overflow_fields, key, value),
              cache |-> r.cache]
      ELSE [kind |-> "loop",
            result |-> DictSet(st.result, key \o "_omitted",
                               JStr(OmittedText(estimate_json_size(value)))),
            overflow_fields |-> DictSet(st.overflow_fields, key, value),
            cache |-> st.cache]
    ELSE [kind |-> "loop", result |-> DictSet(st.result, key, value),
          overflow_fields |-> st.overflow_fields, cache |-> st.cache]

RECURSIVE SplitLoop(_, _, _, _)
\* the for loop from field i on; it stops where the callback raises
SplitLoop(data, i, cb, st) ==
    IF i > Len(data) \/ st.kind = "raise"
    THEN st
    ELSE CHOOSE out \in { SplitLoop(data, i + 1, cb, s2) :
                            s2 \in {SplitStep(data[i].k, data[i].v, cb, st)} } : TRUE

WithinBudget(size, max_size_bytes) == size <= max_size_bytes

\* returns [kind, value | exc, cache]
split_large_response(data, max_size_bytes, cb, c) ==
    LET current_size == estimate_json_size(data) IN
    IF WithinBudget(current_size, max_size_bytes)
    THEN [kind |-> "return", value |-> data, cache |-> c]
    ELSE IF data.t # "map"
    THEN Raise("AttributeError") @@ [cache |-> c]
    ELSE
      CHOOSE out \in {
        IF l.kind = "raise"
        THEN Raise(l.exc) @@ [cache |-> l.cache]
        ELSE [kind |-> "return",
              value |-> JMap(IF Len(l.overflow_fields) > 0
                             THEN DictSet(l.result, "_overflow_info",
                                     OverflowInfo(l.overflow_fields, current_size, l.result))
                             ELSE l.result),
              cache |-> l.cache] :
        l \in { SplitLoop(data.fields, 1, cb,
                          [kind |-> "loop", result |-> <<>>,
                           overflow_fields |-> <<>>, cache |-> c]) } } : TRUE

----------------------------------------------------------------------------
(* utils.response_size_guard: the wrapper, after `await func(self, args)`  *)
(* has produced result.  has_cb: self has a _create_overflow_resource.     *)

OverBudget(size, max_bytes) == size > max_bytes

response_size_guard_threshold(result, max_bytes, has_cb, cb, c) ==
    LET size == estimate_json_size(result) IN
    IF OverBudget(size, DiversionThreshold)
    THEN split_large_response(result, DiversionThreshold,
                              IF has_cb THEN cb ELSE [present |-> FALSE], c)
    ELSE [kind |-> "return", value |-> result, cache |-> c]

response_size_guard(result, max_bytes, has_cb, cb, c) ==
    LET size == estimate_json_size(result) IN
    IF OverBudget(size, max_bytes)
    THEN split_large_response(result, max_bytes,
                              IF has_cb THEN cb ELSE [present |-> FALSE], c)
    ELSE [kind |-> "return", value |-> result, cache |-> c]

----------------------------------------------------------------------------
(* main.handle_read_resource *)

\* index of the first occurrence of p in s, 0 if none
IndexOf(s, p) ==
    IF Contains(s, p)
    THEN CHOOSE i \in 1..(Len(s) - Len(p) + 1) :
            /\ SubSeq(s, i, i + Len(p) - 1) = p
            /\ \A j \in 1..(i - 1) : SubSeq(s, j, j + Len(p) - 1) # p
    ELSE 0

\* uri.split("//")[1], for a uri that contains "//"
SplitSlashes1(uri) ==
    LET i == IndexOf(uri, "//")
        rest == SubSeq(uri, i + 2, Len(uri))
        j == IndexOf(rest, "//")
    IN  IF j = 0 THEN rest ELSE SubSeq(rest, 1, j - 1)

\* `import json` at line 218 makes json a local name of handle_read_resource
\* (main.py has no module-level json), bound only once line 218 has run.  The
\* overflow:// branch and the final else branch return before it, and an
\* exception raised before it reaches the handler at line 221 without it.
JsonImported(line, raised_at) ==
    CASE line = 223 -> raised_at > 218
      [] OTHER      -> line > 218

\* json.dumps(v) evaluated at the given line of main.py; raised_at is the line
\* whose exception is being handled (0 outside the handler)
json_dumps(line, raised_at, v) ==
    IF JsonImported(line, raised_at)
    THEN [kind |-> "return", value |-> [t |-> "text", of |-> v]]
    ELSE Raise("UnboundLocalError")

NotFoundPayload(uri, cache_id) ==
    JMap(<< [k |-> "error", v |-> JStr("Overflow data not found or expired")],
            [k |-> "uri", v |-> JStr(uri)],
            [k |-> "cache_id", v |-> JStr(cache_id)] >>)

\* the overflow:// branch and the final else branch; returns [kind, value | exc, cache]
handle_read_resource(uri, c, t) ==
    LET try ==
          IF StartsWith(uri, "overflow://")
          THEN LET cache_id == SplitSlashes1(uri)
                   g == GetBody(c, cache_id, t)
               IN  IF g.data = JNull
                   THEN json_dumps(175, 0, NotFoundPayload(uri, cache_id))
                            @@ [cache |-> g.cache, line |-> 175]
                   ELSE json_dumps(181, 0, g.data) @@ [cache |-> g.cache, line |-> 181]
          ELSE json_dumps(212, 0,
                          JMap(<< [k |-> "error", v |-> JStr("Resource not found")],
                                  [k |-> "uri", v |-> JStr(uri)] >>))
                  @@ [cache |-> c, line |-> 212]
    IN  IF try.kind = "raise"
        THEN json_dumps(223, try.line,
                        JMap(<< [k |-> "error",
                                 v |-> JStr("Failed to read resource: " \o try.exc)],
                                [k |-> "uri", v |-> JStr(uri)] >>))
                @@ [cache |-> try.cache]
        ELSE [kind |-> try.kind, value |-> try.value, cache |-> try.cache]

----------------------------------------------------------------------------
(* Text.  A str of printable ASCII is a string; bytes and decoded text are *)
(* sequences of byte values / code points.                                 *)

\* the characters 32..95 and 97..126 (a string cannot hold chr(96))
PrintableLow  == " !\"#$%&'()*+,-./0123456789:;<=>?@ABCDEFGHIJKLMNOPQRSTUVWXYZ[\\]^_"
PrintableHigh == "abcdefghijklmnopqrstuvwxyz{|}~"

IsPrintable(n) == (n >= 32 /\ n <= 95) \/ (n >= 97 /\ n <= 126)

\* chr(n) on printable ASCII
Chr(n) ==
    IF n <= 95 THEN SubSeq(PrintableLow, n - 31, n - 31)
    ELSE SubSeq(PrintableHigh, n - 96, n - 96)

OrdTable ==
    [c \in {Chr(n) : n \in {m \in 32..126 : IsPrintable(m)}} |->
        CHOOSE n \in {m \in 32..126 : IsPrintable(m)} : Chr(n) = c]

\* ord(c) on printable ASCII
Ord(c) == OrdTable[c]

\* str.encode('utf-8') of an ASCII str
EncodeUtf8(s) == [i \in 1..Len(s) |-> Ord(SubSeq(s, i, i))]

----------------------------------------------------------------------------
(* json.dumps(data, separators=(',', ':')), ensure_ascii left at True      *)

JBool(b)    == [t |-> "bool", b |-> b]
\* a JSON array given by its items
JArr(items) == [t |-> "arr", items |-> items]
\* a float, kept as the literal it was parsed from
JFloat(lit) == [t |-> "float", lit |-> lit]
\* a str holding characters outside printable ASCII, as code points
JUStr(cps)  == [t |-> "ustr", cps |-> cps]

RECURSIVE EscapeFrom(_, _)
\* the body of a JSON string literal: '"' and '\' are escaped
EscapeFrom(s, i) ==
    IF i > Len(s) THEN ""
    ELSE LET c == SubSeq(s, i, i)
         IN  (IF c = "\"" \/ c = "\\" THEN "\\" \o c ELSE c) \o EscapeFrom(s, i + 1)

Quote(s) == "\"" \o EscapeFrom(s, 1) \o "\""

RECURSIVE dumps_compact(_)
RECURSIVE MembersFrom(_, _)
RECURSIVE ElementsFrom(_, _)
dumps_compact(v) ==
    CASE v.t = "str"   -> Quote(v.s)
      [] v.t = "int"   -> ToString(v.n)
      [] v.t = "bool"  -> IF v.b THEN "true" ELSE "false"
      [] v.t = "null"  -> "null"
      [] v.t = "float" -> v.lit
      [] v.t = "map"   -> "{" \o MembersFrom(v.fields, 1) \o "}"
      [] v.t = "arr"   -> "[" \o ElementsFrom(v.items, 1) \o "]"

MembersFrom(d, i) ==
    IF i > Len(d) THEN ""
    ELSE Quote(d[i].k) \o ":" \o dumps_compact(d[i].v)
            \o (IF i < Len(d) THEN "," ELSE "") \o MembersFrom(d, i + 1)

ElementsFrom(l, i) ==
    IF i > Len(l) THEN ""
    ELSE dumps_compact(l[i]) \o (IF i < Len(l) THEN "," ELSE "") \o ElementsFrom(l, i + 1)

----------------------------------------------------------------------------
(* base64.urlsafe_b64encode and utils.encode_cursor *)

B64Alphabet == "ABCDEFGHIJKLMNOPQRSTUVWXYZabcdefghijklmnopqrstuvwxyz0123456789-_"

B64Char(n) == SubSeq(B64Alphabet, n + 1, n + 1)

RECURSIVE B64EncodeFrom(_, _)
\* three bytes give four characters; a last group of one or two bytes is padded
B64EncodeFrom(b, i) ==
    IF i > Len(b) THEN ""
    ELSE IF i + 2 <= Len(b)
    THEN B64Char(b[i] \div 4)
            \o B64Char((b[i] % 4) * 16 + b[i + 1] \div 16)
            \o B64Char((b[i + 1] % 16) * 4 + b[i + 2] \div 64)
            \o B64Char(b[i + 2] % 64)
            \o B64EncodeFrom(b, i + 3)
    ELSE IF i + 1 = Len(b)
    THEN B64Char(b[i] \div 4)
            \o B64Char((b[i] % 4) * 16 + b[i + 1] \div 16)
            \o B64Char((b[i + 1] % 16) * 4) \o "="
    ELSE B64Char(b[i] \div 4) \o B64Char((b[i] % 4) * 16) \o "=="

urlsafe_b64encode(b) == B64EncodeFrom(b, 1)

RECURSIVE RStripPad(_)
\* str.rstrip('=')
RStripPad(s) ==
    IF Len(s) > 0 /\ SubSeq(s, Len(s), Len(s)) = "="
    THEN RStripPad(SubSeq(s, 1, Len(s) - 1))
    ELSE s

\* utils.encode_cursor: "" when json.dumps raises
encode_cursor(data) ==
    IF Serializable(data)
    THEN RStripPad(urlsafe_b64encode(EncodeUtf8(dumps_compact(data))))
    ELSE ""

----------------------------------------------------------------------------
(* base64.urlsafe_b64decode: '-' and '_' are translated to '+' and '/',    *)
(* then binascii.a2b_base64 runs in its default, non-strict mode.          *)

B64Standard == "ABCDEFGHIJKLMNOPQRSTUVWXYZabcdefghijklmnopqrstuvwxyz0123456789+/"

\* the value of each character, 64 for a character outside the alphabet
B64ValueTable ==
    [c \in DOMAIN OrdTable |->
        IF c = "-" THEN 62
        ELSE IF c = "_" THEN 63
        ELSE IF Contains(B64Standard, c) THEN IndexOf(B64Standard, c) - 1
        ELSE 64]

B64Value(c) == IF c \in DOMAIN B64ValueTable THEN B64ValueTable[c] ELSE 64

\* one character of the input; st is [quad_pos, leftchar, pads, out, done]
A2bStep(c, st) ==
    IF c = "="
    THEN IF st.quad_pos >= 2
         THEN [st EXCEPT !.pads = @ + 1, !.done = (st.quad_pos + st.pads + 1 >= 4)]
         ELSE st
    ELSE LET v == B64Value(c) IN
         IF v >= 64 THEN st
         ELSE CASE st.quad_pos = 0 ->
                     [st EXCEPT !.pads = 0, !.quad_pos = 1, !.leftchar = v]
                [] st.quad_pos = 1 ->
                     [st EXCEPT !.pads = 0, !.quad_pos = 2, !.leftchar = v % 16,
                                !.out = Append(@, st.leftchar * 4 + v \div 16)]
                [] st.quad_pos = 2 ->
                     [st EXCEPT !.pads = 0, !.quad_pos = 3, !.leftchar = v % 4,
                                !.out = Append(@, st.leftchar * 16 + v \div 4)]
                [] st.quad_pos = 3 ->
                     [st EXCEPT !.pads = 0, !.quad_pos = 0, !.leftchar = 0,
                                !.out = Append(@, st.leftchar * 64 + v)]

\* the character at i, if there is one and no pad sequence has ended the scan
A2bAt(s, i, st) ==
    IF i > Len(s) \/ st.done THEN st ELSE A2bStep(SubSeq(s, i, i), st)

\* the characters i .. i+7
A2bChunk(s, i, st) ==
    CHOOSE out \in
      { A2bAt(s, i + 7, s7) : s7 \in
      { A2bAt(s, i + 6, s6) : s6 \in
      { A2bAt(s, i + 5, s5) : s5 \in
      { A2bAt(s, i + 4, s4) : s4 \in
      { A2bAt(s, i + 3, s3) : s3 \in
      { A2bAt(s, i + 2, s2) : s2 \in
      { A2bAt(s, i + 1, s1) : s1 \in
      { A2bAt(s, i, st) } } } } } } } } : TRUE

RECURSIVE A2bFrom(_, _, _)
\* the loop over the input, eight characters at a time
A2bFrom(s, i, st) ==
    IF i > Len(s) \/ st.done THEN st
    ELSE CHOOSE out \in { A2bFrom(s, j, s2) : j \in {i + 8}, s2 \in {A2bChunk(s, i, st)} } : TRUE

\* [ok, bytes]: not ok is binascii.Error (a quad left incomplete)
urlsafe_b64decode(s) ==
    CHOOSE out \in {
        IF ~r.done /\ r.quad_pos # 0 THEN [ok |-> FALSE] ELSE [ok |-> TRUE, bytes |-> r.out] :
        r \in { A2bFrom(s, 1, [quad_pos |-> 0, leftchar |-> 0, pads |-> 0,
                               out |-> <<>>, done |-> FALSE]) } } : TRUE

----------------------------------------------------------------------------
(* bytes.decode('utf-8'), strict *)

At(t, i) == IF i >= 1 /\ i <= Len(t) THEN t[i] ELSE -1

IsCont(x) == x >= 128 /\ x <= 191

\* the number of bytes of the well-formed sequence starting at b[i], 0 if none
Utf8Width(b, i) ==
    LET b0 == At(b, i)  b1 == At(b, i + 1)  b2 == At(b, i + 2)  b3 == At(b, i + 3) IN
    CASE b0 < 128 -> 1
      [] b0 >= 194 /\ b0 <= 223 -> IF IsCont(b1) THEN 2 ELSE 0
      [] b0 = 224 -> IF b1 >= 160 /\ b1 <= 191 /\ IsCont(b2) THEN 3 ELSE 0
      [] b0 = 237 -> IF b1 >= 128 /\ b1 <= 159 /\ IsCont(b2) THEN 3 ELSE 0
      [] b0 >= 225 /\ b0 <= 239 /\ b0 # 237 -> IF IsCont(b1) /\ IsCont(b2) THEN 3 ELSE 0
      [] b0 = 240 -> IF b1 >= 144 /\ b1 <= 191 /\ IsCont(b2) /\ IsCont(b3) THEN 4 ELSE 0
      [] b0 >= 241 /\ b0 <= 243 -> IF IsCont(b1) /\ IsCont(b2) /\ IsCont(b3) THEN 4 ELSE 0
      [] b0 = 244 -> IF b1 >= 128 /\ b1 <= 143 /\ IsCont(b2) /\ IsCont(b3) THEN 4 ELSE 0
      [] OTHER -> 0

Utf8CodePoint(b, i, w) ==
    CASE w = 1 -> b[i]
      [] w = 2 -> (b[i] % 32) * 64 + (b[i + 1] % 64)
      [] w = 3 -> (b[i] % 16) * 4096 + (b[i + 1] % 64) * 64 + (b[i + 2] % 64)
      [] w = 4 -> (b[i] % 8) * 262144 + (b[i + 1] % 64) * 4096
                    + (b[i + 2] % 64) * 64 + (b[i + 3] % 64)

RECURSIVE DecodeUtf8From(_, _, _)
DecodeUtf8From(b, i, acc) ==
    IF i > Len(b) THEN [ok |-> TRUE, text |-> acc]
    ELSE CHOOSE out \in {
            IF w = 0 THEN [ok |-> FALSE]
            ELSE DecodeUtf8From(b, i + w, Append(acc, Utf8CodePoint(b, i, w))) :
            w \in {Utf8Width(b, i)} } : TRUE

\* [ok, text]: not ok is UnicodeDecodeError; ASCII bytes are their own code points
DecodeUtf8(b) ==
    IF \A i \in 1..Len(b) : b[i] < 128
    THEN [ok |-> TRUE, text |-> b]
    ELSE DecodeUtf8From(b, 1, <<>>)

----------------------------------------------------------------------------
(* json.loads on decoded text (a sequence of code points).  A parse is     *)
(* [ok, v, next]; not ok is JSONDecodeError.  Object keys of the model's   *)
(* inputs are printable ASCII.                                             *)

ParseFail == [ok |-> FALSE]
Parsed(v, next) == [ok |-> TRUE, v |-> v, next |-> next]

IsDigit(x) == x >= 48 /\ x <= 57

RECURSIVE SkipWs(_, _)
\* the end of the run of ' ', '\t', '\n', '\r' starting at i
SkipWs(t, i) == IF At(t, i) \in {32, 9, 10, 13} THEN SkipWs(t, i + 1) ELSE i

\* t[i:].startswith(lit)
MatchAt(t, i, lit) == \A j \in 1..Len(lit) : At(t, i + j - 1) = Ord(SubSeq(lit, j, j))

RECURSIVE DigitsEnd(_, _)
DigitsEnd(t, i) == IF IsDigit(At(t, i)) THEN DigitsEnd(t, i + 1) ELSE i

RECURSIVE IntValFrom(_, _, _, _)
\* int() of the digits t[i..j-1]
IntValFrom(t, i, j, acc) ==
    IF i >= j THEN acc ELSE IntValFrom(t, i + 1, j, acc * 10 + (t[i] - 48))

RECURSIVE TextOf(_, _, _)
\* the str of the printable code points t[i..j-1]
TextOf(t, i, j) == IF i >= j THEN "" ELSE Chr(t[i]) \o TextOf(t, i + 1, j)

\* NUMBER_RE = (-?(?:0|[1-9]\d*))(\.\d+)?([eE][-+]?\d+)? matched at i
NumberAt(t, i) ==
    LET s0 == IF At(t, i) = Ord("-") THEN i + 1 ELSE i
        e1 == IF At(t, s0) = Ord("0") THEN s0 + 1
              ELSE IF IsDigit(At(t, s0)) THEN DigitsEnd(t, s0) ELSE 0
        e2 == IF At(t, e1) = Ord(".") /\ IsDigit(At(t, e1 + 1))
              THEN DigitsEnd(t, e1 + 1) ELSE e1
        p  == IF At(t, e2 + 1) \in {Ord("+"), Ord("-")} THEN e2 + 2 ELSE e2 + 1
        e3 == IF At(t, e2) \in {Ord("e"), Ord("E")} /\ IsDigit(At(t, p))
              THEN DigitsEnd(t, p) ELSE e2
    IN  IF e1 = 0 THEN ParseFail
        ELSE IF e3 = e1
        THEN Parsed(JInt((IF s0 > i THEN -1 ELSE 1) * IntValFrom(t, s0, e1, 0)), e1)
        ELSE Parsed(JFloat(TextOf(t, i, e3)), e3)

HexVal(x) ==
    CASE IsDigit(x) -> x - 48
      [] x >= 97 /\ x <= 102 -> x - 87
      [] x >= 65 /\ x <= 70 -> x - 55
      [] OTHER -> -1

\* the code unit of the four hex digits at i, -1 if they are not hex digits
Hex4At(t, i) ==
    IF \A j \in 0..3 : HexVal(At(t, i + j)) >= 0
    THEN HexVal(t[i]) * 4096 + HexVal(t[i + 1]) * 256 + HexVal(t[i + 2]) * 16 + HexVal(t[i + 3])
    ELSE -1

\* the str a string literal denotes
MkStr(cps) ==
    IF \A i \in 1..Len(cps) : IsPrintable(cps[i])
    THEN JStr(TextOf(cps, 1, Len(cps) + 1))
    ELSE JUStr(cps)

\* [code point, width] of the escape sequence whose '\' is at i; width 0: invalid
EscapeAt(t, i) ==
    LET e == At(t, i + 1) IN
    CASE e = Ord("\"") -> <<34, 2>>
      [] e = Ord("\\") -> <<92, 2>>
      [] e = Ord("/")  -> <<47, 2>>
      [] e = Ord("b")  -> <<8, 2>>
      [] e = Ord("f")  -> <<12, 2>>
      [] e = Ord("n")  -> <<10, 2>>
      [] e = Ord("r")  -> <<13, 2>>
      [] e = Ord("t")  -> <<9, 2>>
      [] e = Ord("u")  ->
            LET hi == Hex4At(t, i + 2)
                lo == IF At(t, i + 6) = Ord("\\") /\ At(t, i + 7) = Ord("u")
                      THEN Hex4At(t, i + 8) ELSE -1
            IN  IF hi < 0 THEN <<0, 0>>
                ELSE IF hi >= 55296 /\ hi <= 56319 /\ lo >= 56320 /\ lo <= 57343
                THEN <<65536 + (hi - 55296) * 1024 + (lo - 56320), 12>>
                ELSE <<hi, 6>>
      [] OTHER -> <<0, 0>>

RECURSIVE scanstring(_, _, _)
\* the string literal whose opening quote is at i - 1 (strict: no control characters)
scanstring(t, i, acc) ==
    LET c == At(t, i) IN
    CASE c = -1 -> ParseFail
      [] c = Ord("\"") -> Parsed(MkStr(acc), i + 1)
      [] c = Ord("\\") ->
            CHOOSE out \in {
                IF e[2] = 0 THEN ParseFail
                ELSE scanstring(t, i + e[2], Append(acc, e[1])) :
                e \in {EscapeAt(t, i)} } : TRUE
      [] c >= 0 /\ c < 32 -> ParseFail
      [] OTHER -> CHOOSE out \in { scanstring(t, i + 1, a2) : a2 \in {Append(acc, c)} } : TRUE

RECURSIVE scan_once(_, _)
RECURSIVE ObjectLoop(_, _, _)
RECURSIVE ObjectValue(_, _, _)
RECURSIVE ObjectNext(_, _, _)
RECURSIVE ArrayLoop(_, _, _)
RECURSIVE ArrayNext(_, _, _)

\* JSONObject: i is the position after '{'
JSONObject(t, i) ==
    LET j == SkipWs(t, i) IN
    IF At(t, j) = Ord("}") THEN Parsed(JMap(<<>>), j + 1)
    ELSE IF At(t, j) # Ord("\"") THEN ParseFail
    ELSE ObjectLoop(t, j + 1, <<>>)

\* a member: its key (i is the position after the opening quote) ...
ObjectLoop(t, i, acc) ==
    CHOOSE out \in {
        IF ~k.ok THEN ParseFail ELSE ObjectValue(t, k, acc) :
        k \in {scanstring(t, i, <<>>)} } : TRUE

\* ... ':' and its value; a repeated key keeps its place and takes the last value
ObjectValue(t, k, acc) ==
    LET j1 == SkipWs(t, k.next) IN
    IF At(t, j1) # Ord(":") THEN ParseFail
    ELSE CHOOSE out \in {
            IF ~v.ok THEN ParseFail
            ELSE CHOOSE o2 \in { ObjectNext(t, a2, j3) :
                                    a2 \in {DictSet(acc, k.v.s, v.v)},
                                    j3 \in {SkipWs(t, v.next)} } : TRUE :
            v \in {scan_once(t, SkipWs(t, j1 + 1))} } : TRUE

\* ... then '}' or ',' and the next key
ObjectNext(t, acc, j) ==
    IF At(t, j) = Ord("}") THEN Parsed(JMap(acc), j + 1)
    ELSE IF At(t, j) # Ord(",") THEN ParseFail
    ELSE LET j4 == SkipWs(t, j + 1) IN
         IF At(t, j4) # Ord("\"") THEN ParseFail ELSE ObjectLoop(t, j4 + 1, acc)

\* JSONArray: i is the position after '['
JSONArray(t, i) ==
    LET j == SkipWs(t, i) IN
    IF At(t, j) = Ord("]") THEN Parsed(JArr(<<>>), j + 1)
    ELSE ArrayLoop(t, j, <<>>)

ArrayLoop(t, i, acc) ==
    CHOOSE out \in {
        IF ~v.ok THEN ParseFail
        ELSE CHOOSE o2 \in { ArrayNext(t, a2, j3) :
                                a2 \in {Append(acc, v.v)},
                                j3 \in {SkipWs(t, v.next)} } : TRUE :
        v \in {scan_once(t, i)} } : TRUE

ArrayNext(t, acc, j) ==
    IF At(t, j) = Ord("]") THEN Parsed(JArr(acc), j + 1)
    ELSE IF At(t, j) # Ord(",") THEN ParseFail
    ELSE ArrayLoop(t, SkipWs(t, j + 1), acc)

\* the value starting at i
scan_once(t, i) ==
    LET c == At(t, i) IN
    CASE c = Ord("\"") -> scanstring(t, i + 1, <<>>)
      [] c = Ord("{")  -> JSONObject(t, i + 1)
      [] c = Ord("[")  -> JSONArray(t, i + 1)
      [] c = Ord("n") /\ MatchAt(t, i, "null")  -> Parsed(JNull, i + 4)
      [] c = Ord("t") /\ MatchAt(t, i, "true")  -> Parsed(JBool(TRUE), i + 4)
      [] c = Ord("f") /\ MatchAt(t, i, "false") -> Parsed(JBool(FALSE), i + 5)
      [] OTHER ->
            CHOOSE out \in {
                IF m.ok THEN m
                ELSE IF MatchAt(t, i, "NaN") THEN Parsed(JFloat("NaN"), i + 3)
                ELSE IF MatchAt(t, i, "Infinity") THEN Parsed(JFloat("Infinity"), i + 8)
                ELSE IF MatchAt(t, i, "-Infinity") THEN Parsed(JFloat("-Infinity"), i + 9)
                ELSE ParseFail :
                m \in {NumberAt(t, i)} } : TRUE

\* json.loads: one value, white space around it, nothing else
json_loads(t) ==
    IF At(t, 1) = 65279 THEN ParseFail
    ELSE CHOOSE out \in {
            IF r.ok /\ SkipWs(t, r.next) = Len(t) + 1 THEN r ELSE ParseFail :
            r \in {scan_once(t, SkipWs(t, 1))} } : TRUE

----------------------------------------------------------------------------
(* utils.decode_cursor.  None is JNull; every exception is caught.         *)

PadCursor_none(cursor) == cursor

\* lines 467-469: pad to a multiple of four characters
PadCursor(cursor) ==
    LET padding == 4 - (Len(cursor) % 4) IN
    CASE padding = 4 -> cursor
      [] padding = 3 -> cursor \o "==="
      [] padding = 2 -> cursor \o "=="
      [] padding = 1 -> cursor \o "="

decode_cursor(cursor) ==
    IF cursor = "" THEN JNull
    ELSE CHOOSE out \in {
            IF ~d.ok THEN JNull
            ELSE CHOOSE o2 \in {
                    IF ~u.ok THEN JNull
                    ELSE CHOOSE o3 \in { IF j.ok THEN j.v ELSE JNull :
                                         j \in {json_loads(u.text)} } : TRUE :
                    u \in {DecodeUtf8(d.bytes)} } : TRUE :
            d \in {urlsafe_b64decode(PadCursor(cursor))} } : TRUE

----------------------------------------------------------------------------
(* utils.create_pagination_response *)

\* bool(v)
Truthy(v) ==
    CASE v.t = "null"  -> FALSE
      [] v.t = "bool"  -> v.b
      [] v.t = "int"   -> v.n # 0
      [] v.t = "str"   -> v.s # ""
      [] v.t = "map"   -> Len(v.fields) > 0
      [] v.t = "arr"   -> Len(v.items) > 0
      [] v.t = "float" -> v.lit \notin {"0.0", "-0.0", "0e0"}
      [] OTHER         -> TRUE

FillHeuristic_atleast(n, page_size) == n >= page_size

\* line 511: len(items) == page_size
FillHeuristic(n, page_size) == n = page_size

\* items is the list of the page; has_more is JNull for None
create_pagination_response(items, cursor_data, page_size, has_more) ==
    LET hm == IF has_more = JNull
              THEN JBool(FillHeuristic(Len(items), page_size))
              ELSE has_more
        pagination == << [k |-> "returned", v |-> JInt(Len(items))],
                         [k |-> "hasMore", v |-> hm] >>
    IN  JMap(<< [k |-> "items", v |-> JArr(items)],
                [k |-> "pagination",
                 v |-> JMap(IF Truthy(hm) /\ Truthy(cursor_data)
                            THEN DictSet(pagination, "nextCursor",
                                         JStr(encode_cursor(cursor_data)))
                            ELSE pagination)] >>)

----------------------------------------------------------------------------
(* The paginated listings of main.py: _get_recent_running_activities       *)
(* (wrapped by cached, then handle_api_errors) and                         *)
(* _resource_activities_list.  running_activities is the filtered list the *)
(* Garmin client returned; no cursor is "".                                *)

\* a slice index brought into 0..n
ClampIndex(i, n) ==
    IF i < 0 THEN (IF i + n < 0 THEN 0 ELSE i + n) ELSE (IF i > n THEN n ELSE i)

\* l[a:b]
Slice(l, a, b) ==
    LET lo == ClampIndex(a, Len(l))
        hi == ClampIndex(b, Len(l))
    IN  IF hi <= lo THEN <<>> ELSE SubSeq(l, lo + 1, hi)

\* lines 1063-1064 / 3222-3223: a truthy cursor_data that is not a dict has no .get
CursorOffset(cursor) ==
    CHOOSE out \in {
        IF Truthy(cursor_data)
        THEN IF cursor_data.t = "map"
             THEN [kind |-> "return",
                   offset |-> IF DictHas(cursor_data.fields, "offset")
                              THEN DictGet(cursor_data.fields, "offset")
                              ELSE JInt(0)]
             ELSE Raise("AttributeError")
        ELSE [kind |-> "return", offset |-> JInt(0)] :
        cursor_data \in {IF cursor # "" THEN decode_cursor(cursor) ELSE JNull} } : TRUE

NextOffset_skip(offset, limit) == offset + limit + 1

\* offset + limit
NextOffset(offset, limit) == offset + limit

\* lines 1077-1089 / 3237-3248, o being the outcome of lines 1063-1064; extra:
\* what the handler adds to the next state.  offset + limit raises TypeError
\* unless offset is an int (or a bool)
ListPageAt(running_activities, o, limit, extra) ==
    IF o.kind = "raise" THEN o
    ELSE IF o.offset.t \notin {"int", "bool"} THEN Raise("TypeError")
    ELSE LET offset == IF o.offset.t = "int" THEN o.offset.n
                       ELSE IF o.offset.b THEN 1 ELSE 0
             paginated == Slice(running_activities, offset, NextOffset(offset, limit))
             next_cursor_data ==
                IF Len(running_activities) > NextOffset(offset, limit)
                THEN JMap(<< [k |-> "offset", v |-> JInt(NextOffset(offset, limit))] >>
                              \o extra)
                ELSE JNull
         IN  [kind |-> "return",
              value |-> create_pagination_response(paginated, next_cursor_data,
                                                   limit, JNull)]

ListPage(running_activities, cursor, limit, extra) ==
    CHOOSE out \in {ListPageAt(running_activities, o, limit, extra) :
                        o \in {CursorOffset(cursor)}} : TRUE

resource_activities_list(running_activities, cursor, limit) ==
    ListPage(running_activities, cursor, limit, <<>>)

DefaultDaysBack == 30

\* what handle_api_errors returns for an exception of no known category
ApiErrorDict(exc) ==
    JMap(<< [k |-> "error", v |-> JStr("API call failed: " \o exc)],
            [k |-> "error_type", v |-> JStr("GarminAPIError")],
            [k |-> "user_message",
             v |-> JStr("An unexpected error occurred. Please try again later")] >>)

ResourcesNote ==
    JMap(<< [k |-> "complete_list", v |-> JStr("activity://list")],
            [k |-> "note",
             v |-> JStr("Use activity://list resource for full paginated access to all activities")] >>)

\* cached: the key is made of the function name and the arguments; memo is
\* utils._cache restricted to this handler.  Returns [kind, value, memo]
get_recent_running_activities(running_activities, cursor, limit, memo) ==
    LET cache_key == <<cursor, limit>> IN
    IF cache_key \in DOMAIN memo
    THEN [kind |-> "return", value |-> memo[cache_key], memo |-> memo]
    ELSE CHOOSE out \in {
            IF r.kind = "raise"
            THEN [kind |-> "return", value |-> ApiErrorDict(r.exc), memo |-> memo]
            ELSE [kind |-> "return",
                  value |-> JMap(DictSet(r.value.fields, "resources", ResourcesNote)),
                  memo |-> CachePut(memo, cache_key,
                                    JMap(DictSet(r.value.fields, "resources", ResourcesNote)))] :
            r \in {ListPage(running_activities, cursor, limit,
                            << [k |-> "days_back", v |-> JInt(DefaultDaysBack)] >>)} } : TRUE

----------------------------------------------------------------------------
(* utils.with_retry.  An exception is [type, msg]; msg is str(e).            *)

\* the classes an exception of the given type is an instance of
Bases(type) ==
    CASE type \in {"GarminNetworkError", "GarminRateLimitError",
                   "GarminAuthenticationError", "GarminDataNotFoundError",
                   "GarminDeviceRequiredError"}
                                         -> {type, "GarminAPIError", "Exception"}
      [] type = "ConnectionResetError"   -> {type, "ConnectionError", "OSError", "Exception"}
      [] type \in {"TimeoutError", "ConnectionError"}
                                         -> {type, "OSError", "Exception"}
      [] type = "KeyError"               -> {type, "LookupError", "Exception"}
      [] OTHER                           -> {type, "Exception"}

IsInstance(e, exc_type) == exc_type \in Bases(e.type)

\* lines 203-204: the default retry_on (None) stands for these types
DefaultRetryable ==
    {"GarminNetworkError", "GarminRateLimitError", "TimeoutError", "ConnectionError"}

\* retry_on: [given |-> FALSE] for None, else the list of types
RetryOnNone == [given |-> FALSE, types |-> {}]
Retryable(retry_on) == IF ~retry_on.given THEN DefaultRetryable ELSE retry_on.types

RetryPatterns == << "timeout", "connection", "network", "429", "rate limit" >>
NoRetryPatterns == << "401", "unauthorized", "authentication", "404", "not found" >>

\* any(pattern in error_msg for pattern in patterns)
AnyPattern(patterns, error_msg) ==
    \E i \in 1..Len(patterns) : Contains(error_msg, patterns[i])

\* lines 221-225: the message tests, in the order of the elif chain
ShouldRetryMsg(error_msg) ==
    IF AnyPattern(RetryPatterns, error_msg) THEN TRUE
    ELSE IF AnyPattern(NoRetryPatterns, error_msg) THEN FALSE
    ELSE FALSE

\* lines 214-225
should_retry(e, retry_on) ==
    IF \E exc_type \in Retryable(retry_on) : IsInstance(e, exc_type)
    THEN TRUE
    ELSE ShouldRetryMsg(Lower(e.msg))

\* lines 233-236: the backoff before the next attempt
wait_time(delay, attempt, error_msg) ==
    IF Contains(error_msg, "429") \/ Contains(error_msg, "rate limit")
    THEN delay * (3 ^ attempt)
    ELSE delay * (2 ^ attempt)

LastAttempt_never(attempt, max_attempts) == FALSE

\* attempt < max_attempts - 1 is false
LastAttempt(attempt, max_attempts) == ~(attempt < max_attempts - 1)

\* one iteration of the for loop, lines 208-241, the wrapped function having
\* returned or raised `outcome`; r is the wrapper's state
RetryStep(r, outcome) ==
    IF outcome.kind = "return"
    THEN [r EXCEPT !.pc = "returned", !.invocations = @ + 1, !.value = outcome.value]
    ELSE LET e == outcome.exc IN
         CHOOSE out \in {
            IF ~again
            THEN [r EXCEPT !.pc = "raised", !.invocations = @ + 1,
                           !.errors = Append(@, e), !.exc = e]
            ELSE IF ~LastAttempt(r.attempt, r.max_attempts)
            THEN [r EXCEPT !.pc = "sleep", !.invocations = @ + 1,
                           !.errors = Append(@, e),
                           !.wait = wait_time(r.delay, r.attempt, Lower(e.msg))]
            \* the loop is over: raise last_exception
            ELSE [r EXCEPT !.pc = "raised", !.invocations = @ + 1,
                           !.errors = Append(@, e), !.exc = e] :
            again \in {should_retry(e, r.retry_on)} } : TRUE

----------------------------------------------------------------------------
(* utils.handle_api_errors and utils.validate_required_params.  A call    *)
(* of a function is [kind |-> "return", value] or [kind |-> "raise", exc].   *)

ErrorDict(error, error_type, user_message) ==
    JMap(<< [k |-> "error", v |-> JStr(error)],
            [k |-> "error_type", v |-> JStr(error_type)],
            [k |-> "user_message", v |-> JStr(user_message)] >>)

\* utils._get_user_friendly_message
get_user_friendly_message(e) ==
    CASE IsInstance(e, "GarminAuthenticationError") ->
            "Please check your Garmin Connect credentials or re-authenticate using the setup script"
      [] IsInstance(e, "GarminNetworkError") ->
            "Connection issue. Please check your internet connection and try again"
      [] IsInstance(e, "GarminDataNotFoundError") ->
            "The requested data is not available. Please ensure your Garmin device is syncing properly"
      [] IsInstance(e, "GarminRateLimitError") ->
            "Too many requests. Please wait a few moments before trying again"
      [] IsInstance(e, "GarminDeviceRequiredError") ->
            "This feature requires a compatible Garmin device with the necessary sensors"
      [] OTHER -> "An error occurred while accessing Garmin Connect. Please try again"

\* the elif chain of the `except Exception` branch; error_msg is str(e).lower()
CategorizeError(msg, error_msg) ==
    IF AnyPattern(<< "401", "unauthorized", "authentication" >>, error_msg)
    THEN ErrorDict("Authentication failed", "GarminAuthenticationError",
                   "Please check your Garmin Connect credentials or re-authenticate")
    ELSE IF AnyPattern(<< "404", "not found" >>, error_msg)
    THEN ErrorDict("Data not found", "GarminDataNotFoundError",
                   "The requested data is not available. Please ensure your device is syncing properly")
    ELSE IF AnyPattern(<< "429", "rate limit" >>, error_msg)
    THEN ErrorDict("Rate limit exceeded", "GarminRateLimitError",
                   "Too many requests. Please wait a moment before trying again")
    ELSE IF AnyPattern(<< "timeout", "connection", "network" >>, error_msg)
    THEN ErrorDict("Network error", "GarminNetworkError",
                   "Connection issue. Please check your network and try again")
    ELSE IF AnyPattern(<< "device", "not supported" >>, error_msg)
    THEN ErrorDict("Device capability required", "GarminDeviceRequiredError",
                   "This feature requires a compatible Garmin device with the necessary sensors")
    ELSE ApiErrorDict(msg)

\* the wrapper of handle_api_errors around a call that ended as r: an
\* exception becomes an error map, a result passes through
handle_api_errors(r) ==
    IF r.kind = "return" THEN r.value
    ELSE IF IsInstance(r.exc, "GarminAPIError")
    THEN ErrorDict(r.exc.msg, r.exc.type, get_user_friendly_message(r.exc))
    ELSE CategorizeError(r.exc.msg, Lower(r.exc.msg))

\* `not args.get(p)`: the key is missing or its value is None, "" or 0
ArgMissing(args, p) ==
    \/ ~DictHas(args, p)
    \/ DictGet(args, p) \in {JNull, JStr(""), JInt(0)}

RECURSIVE JoinFrom(_, _)
\* ', '.join(l[i:])
JoinFrom(l, i) ==
    IF i > Len(l) THEN ""
    ELSE IF i = Len(l) THEN l[i]
    ELSE l[i] \o ", " \o JoinFrom(l, i + 1)

\* validate_required_params(*params): the error map returned in place of the
\* call, or JNull when the wrapped function is to be called
validate_required_params(params, args) ==
    LET missing == SelectSeq(params, LAMBDA p : ArgMissing(args, p)) IN
    IF missing # << >>
    THEN JMap(<< [k |-> "error",
                  v |-> JStr("Missing required parameters: " \o JoinFrom(missing, 1))] >>)
    ELSE JNull

----------------------------------------------------------------------------
(* utils.cached.  Durations are counted in quarters of an hour, so that     *)
(* timedelta(hours=duration) is duration * QuarterHour seconds.             *)

QuarterHour == 900

\* utils.CACHE_DURATIONS
CACHE_DURATIONS ==
    << [k |-> "personal_records", v |-> 96], [k |-> "race_predictions", v |-> 48],
       [k |-> "vo2max", v |-> 24], [k |-> "training_status", v |-> 4],
       [k |-> "training_readiness", v |-> 4], [k |-> "endurance_score", v |-> 4],
       [k |-> "hill_score", v |-> 4], [k |-> "heart_rate", v |-> 1],
       [k |-> "stress", v |-> 1], [k |-> "body_battery", v |-> 2],
       [k |-> "hrv", v |-> 2], [k |-> "activities", v |-> 2],
       [k |-> "activity_details", v |-> 96], [k |-> "sleep", v |-> 8],
       [k |-> "respiration", v |-> 4], [k |-> "spo2", v |-> 8],
       [k |-> "default", v |-> 4] >>

\* CACHE_DURATIONS.get(name, CACHE_DURATIONS["default"])
DurationOf(name) ==
    IF DictHas(CACHE_DURATIONS, name) THEN DictGet(CACHE_DURATIONS, name)
    ELSE DictGet(CACHE_DURATIONS, "default")

RECURSIVE ReplaceFrom(_, _, _, _)
\* s[i:].replace(old, new), old not empty
ReplaceFrom(s, i, old, new) ==
    IF i > Len(s) THEN ""
    ELSE IF i + Len(old) - 1 <= Len(s) /\ SubSeq(s, i, i + Len(old) - 1) = old
    THEN new \o ReplaceFrom(s, i + Len(old), old, new)
    ELSE SubSeq(s, i, i) \o ReplaceFrom(s, i + 1, old, new)

\* lines 257-265.  A decoration is [hours_given, cache_duration_hours,
\* cache_type]: hours_given is false and cache_type is "None" when not given
cache_duration(func_name, deco) ==
    IF deco.hours_given THEN deco.cache_duration_hours
    ELSE IF deco.cache_type # "None" /\ deco.cache_type # "" THEN DurationOf(deco.cache_type)
    ELSE DurationOf(ReplaceFrom(ReplaceFrom(func_name, 1, "_get_", ""), 1, "_", ""))

\* repr of an argument value
Repr(v) ==
    CASE v.t = "str" -> "'" \o v.s \o "'"
      [] v.t = "int" -> ToString(v.n)
      [] OTHER -> "None"

\* the argument names the model uses, in the order sorted() puts them
KeyOrder == << "activity_id", "cursor", "date", "days_back", "limit" >>

\* sorted(args.items()): the keys are distinct, so the values are not compared
SortedItems(args) ==
    LET present == SelectSeq(KeyOrder, LAMBDA k : DictHas(args, k))
    IN  [i \in 1..Len(present) |-> [k |-> present[i], v |-> DictGet(args, present[i])]]

RECURSIVE ItemsFrom(_, _)
ItemsFrom(items, i) ==
    IF i > Len(items) THEN ""
    ELSE "('" \o items[i].k \o "', " \o Repr(items[i].v) \o ")"
         \o (IF i < Len(items) THEN ", " ELSE "") \o ItemsFrom(items, i + 1)

\* f"{func.__name__}:{str(sorted(args.items()))}"
cache_key(func_name, args) ==
    func_name \o ":" \o "[" \o ItemsFrom(SortedItems(args), 1) \o "]"

CacheFresh_inclusive(t, expires_at) == t <= expires_at

\* datetime.now() < cached_data['expires_at']
CacheFresh(t, expires_at) == t < expires_at

\* lines 270-274: the entry the wrapper returns without calling the function
CacheHit(c, key, t) == key \in DOMAIN c /\ CacheFresh(t, c[key].expires_at)

IsErrorResult_never(result) == FALSE

\* isinstance(result, dict) and 'error' in result
IsErrorResult(result) == result.t = "map" /\ DictHas(result.fields, "error")

\* lines 280-286: _cache after the wrapped function has returned result
cached_store(c, key, result, t, duration) ==
    IF ~IsErrorResult(result)
    THEN CachePut(c, key, [data |-> result, expires_at |-> t + duration * QuarterHour])
    ELSE c

----------------------------------------------------------------------------
(* Inputs *)

Tasks == 1..NumTasks

\* values uuid4().hex[:8] takes in the model
HexTable == << "0a1b2c3d", "4e5f6071", "8292a3b4", "c5d6e7f8", "0918273a", "4b5c6d7e" >>
Suffixes == {HexTable[i] : i \in 1..NumSuffixes}

ActivityIds == {"12345"}
StoreFields == {"raw_details"}
StoreData == {JObj("A", 900000), JObj("B", 60000)}
TTLs == {1, 2}

StoreOps == [name : {"store"}, activity_id : ActivityIds, field_name : StoreFields,
             data : StoreData, ttl_seconds : TTLs]
StoreKeys == {CacheId(a, f, h) : a \in ActivityIds, f \in StoreFields, h \in Suffixes}
GetOps == [name : {"get"}, cache_id : StoreKeys \cup {"missing"}]
CleanupOps == {[name |-> "cleanup"]}
NoOp == [name |-> "none"]
NoRet == [name |-> "none"]
NoCall == [op |-> "none"]
NoPage == [op |-> "none"]
NoShadow == [op |-> "none"]
NoPhase == [op |-> "none"]
NoRetry == [op |-> "none"]
NoMemo == [op |-> "none"]
NoSession == [op |-> "none"]

Small == JStr("hello")
Big == JObj("S", 900000)
Mid == JObj("R", 600000)
AtThreshold == JObj("P", 50000)

Field(k, v) == [k |-> k, v |-> v]

\* results of guarded handlers
GuardResponses ==
    { JMap(<< Field("summary", Small) >>),
      JMap(<< Field("summary", Small), Field("raw_details", Mid) >>),
      JMap(<< Field("summary", Small), Field("raw_details", Big) >>),
      JMap(<< Field("summary", Big) >>),
      JMap(<< Field("raw_details", JObj("E", 799984)) >>),
      JMap(<< Field("RAW_details", Big), Field("GPS_track", Mid) >>),
      JMap(<< Field("summary", JUnser("U")), Field("raw_details", Big) >>),
      JList("L", 900000) }

FieldKeys == InputKeys \ {"RAW_details"}
FieldValues == {Small, JNull, AtThreshold, Mid, Big}
Fields == {Field(k, v) : k \in FieldKeys, v \in FieldValues}

\* response maps of at most MaxFields fields with distinct keys
SplitInputs ==
    { JMap(d) : d \in { s \in UNION {[1..n -> Fields] : n \in 1..MaxFields} :
                          \A i, j \in 1..Len(s) : i # j => s[i].k # s[j].k } }

SyncEnvs == { [has_cb |-> FALSE, loop |-> "none"],
              [has_cb |-> TRUE, loop |-> "idle"],
              [has_cb |-> TRUE, loop |-> "none"] }

ReadUris ==
    {UriOf(CacheId(a, f, h)) : a \in ActivityIds \cup {"unknown"},
                               f \in {"raw_details"}, h \in Suffixes}
        \cup {"overflow://missing", "foo://x"}

\* number of store calls a split of data makes when its callback succeeds
StoreCalls(data, env) ==
    IF env.has_cb /\ env.loop = "idle" /\ data.t = "map"
       /\ ~WithinBudget(estimate_json_size(data), MaxBytes)
    THEN Cardinality({i \in 1..Len(data.fields) :
            is_large_field(data.fields[i].k, data.fields[i].v, DiversionThreshold)})
    ELSE 0

\* the values uuid4().hex[:8] takes in those store calls, in order
HexChoices(data, env) == [1..StoreCalls(data, env) -> Suffixes]

(* inputs of the cursor codec *)

StateKeys == {"offset", "days_back", ""}
StateValues == {JInt(0), JInt(10), JInt(-7), JBool(TRUE), JBool(FALSE),
                JStr(""), JStr("a\"b\\c"), JStr("2025-01-01")}

\* pagination states: flat maps of at most MaxStateKeys distinct string keys
CursorStates ==
    { JMap(d) : d \in { f \in UNION {[1..n -> [k : StateKeys, v : StateValues]] :
                                        n \in 0..MaxStateKeys} :
                          \A i, j \in 1..Len(f) : i # j => f[i].k # f[j].k } }

NonMapValues == {JInt(5), JInt(0), JStr("x"), JStr(""), JArr(<<JInt(1)>>), JArr(<<>>),
                 JBool(TRUE), JBool(FALSE), JNull}

SampleStates ==
    { JMap(<<>>),
      JMap(<< Field("offset", JInt(10)) >>),
      JMap(<< Field("offset", JInt(10)), Field("days_back", JInt(30)) >>),
      JMap(<< Field("q", JStr("a\"b\\c")), Field("b", JBool(FALSE)) >>) }

Prefixes(s) == {SubSeq(s, 1, n) : n \in 0..(Len(s) - 1)}

ValidTokens == {encode_cursor(st) : st \in SampleStates}
TruncatedTokens == UNION {Prefixes(tok) : tok \in ValidTokens}
NonMapTokens == {encode_cursor(v) : v \in NonMapValues}
\* text no encoder made: stray characters, bad lengths, bad UTF-8, bad JSON
GarbageTokens == {"!!!!", "abc", "e", "e3!0", "e30e30", " e30", "_w", "w6k", "MDE",
                  "e30=", "e30=e30", "IHt9IA", "TmFO", "MS41", "IsOpIg",
                  "eyJhIjoxLCJhIjoyfQ", "eyJvZmZzZXQiOiJhIn0", "eyJvZmZzZXQiOi0xfQ"}

CursorTokens == ValidTokens \cup TruncatedTokens \cup NonMapTokens \cup GarbageTokens

(* inputs of create_pagination_response and of the listings *)

Activities == << JStr("run1"), JStr("run2"), JStr("run3"), JStr("run4"),
                 JStr("run5"), JStr("run6"), JStr("run7") >>

PageArgs ==
    [op : {"page_args"},
     items : {Slice(Activities, 0, n) : n \in 0..MaxItems},
     cursor_data : {JNull, JMap(<<>>), JMap(<< Field("offset", JInt(2)) >>)},
     page_size : 0..MaxLimit,
     has_more : {JNull, JBool(TRUE), JBool(FALSE)}]

(* inputs of is_large_field *)

ClassifyValues == {JNull, Small, JInt(1234), AtThreshold, JObj("Q", 50001), Mid,
                   JUnser("U")}
Thresholds == {0, 3, 4, DiversionThreshold, 100000}

FieldArgs == [op : {"field"}, key : InputKeys, value : ClassifyValues,
              threshold : Thresholds]

\* what one invocation of a function wrapped by with_retry can do
Exc(type, msg) == [type |-> type, msg |-> msg]
RetryErrors ==
    { Exc("GarminNetworkError", "Network error"),
      Exc("TimeoutError", "timed out"),
      Exc("ConnectionResetError", "[Errno 104] reset by peer"),
      Exc("GarminRateLimitError", "Rate limit exceeded"),
      Exc("Exception", "429 Too Many Requests"),
      Exc("Exception", "401 Unauthorized"),
      Exc("ValueError", "Authentication failed. Please ensure GARMIN_USERNAME is set"),
      Exc("Exception", "404 Not Found"),
      Exc("Exception", "Connection error: 401 Unauthorized"),
      Exc("GarminNetworkError", "Resource not found"),
      Exc("KeyError", "boom") }
RetryOutcomes ==
    {[kind |-> "return", value |-> JStr("ok")]}
        \cup {[kind |-> "raise", exc |-> e] : e \in RetryErrors}

\* with_retry(max_attempts, delay, retry_on): the defaults, _authenticate's
\* (3, 2.0, None), and an explicit retry_on list
RetryArgs ==
    [max_attempts : 0..MaxAttempts, delay : {1, 2}, retry_on : {RetryOnNone, [given |-> TRUE, types |-> {"KeyError"}]}]

----------------------------------------------------------------------------
(* Tool handlers of main.py with their decorators, outermost first:        *)
(* handle_api_errors, then cached or validate_required_params, then          *)
(* response_size_guard.                                                      *)

Hours(q) == [hours_given |-> TRUE, cache_duration_hours |-> q, cache_type |-> "None"]
OfType(cache_type) ==
    [hours_given |-> FALSE, cache_duration_hours |-> 0, cache_type |-> cache_type]

ToolHandlers ==
    { [name |-> "_get_recent_running_activities", cached |-> TRUE,
       deco |-> OfType("activities"), required |-> << >>,
       guarded |-> FALSE, sets_ctx |-> FALSE],
      [name |-> "_get_daily_activity", cached |-> TRUE,
       deco |-> Hours(2), required |-> << >>,
       guarded |-> TRUE, sets_ctx |-> FALSE],
      [name |-> "_get_devices", cached |-> TRUE,
       deco |-> Hours(24), required |-> << >>,
       guarded |-> TRUE, sets_ctx |-> FALSE],
      [name |-> "_get_advanced_running_metrics", cached |-> FALSE,
       deco |-> OfType("None"), required |-> << "activity_id" >>,
       guarded |-> TRUE, sets_ctx |-> TRUE] }

ToolActivityIds == {"12345", "67890"}

\* the argument maps each tool is called with
ToolArgs(h) ==
    CASE h.name = "_get_recent_running_activities" ->
            { << >>, << Field("limit", JInt(5)) >> }
      [] h.name = "_get_advanced_running_metrics" ->
            { << >> } \cup { << Field("activity_id", JStr(a)) >> : a \in ToolActivityIds }
      [] OTHER -> { << >> }

Returned(v) == [kind |-> "return", value |-> v]
Raised(e) == [kind |-> "raise", exc |-> e]

\* how the body of each handler can end
Bodies(h) ==
    CASE h.name = "_get_recent_running_activities" ->
            { Returned(JMap(<< Field("count", JInt(1)) >>)),
              Returned(JMap(<< Field("count", JInt(2)) >>)),
              Raised(Exc("Exception", "401 Unauthorized")) }
      [] h.name = "_get_daily_activity" ->
            { Returned(JMap(<< Field("steps", JInt(1)) >>)),
              Returned(JMap(<< Field("steps", JInt(1)), Field("raw_data", Big) >>)) }
      [] h.name = "_get_devices" ->
            { Returned(JMap(<< Field("devices", Small), Field("device_count", JInt(1)) >>)),
              Returned(JMap(<< Field("error", JStr("Could not retrieve device information")),
                               Field("note", JStr("Device API may not be available")) >>)) }
      [] OTHER ->
            { Returned(JMap(<< Field("summary", Small), Field("raw_details", Big) >>)),
              Raised(Exc("GarminNetworkError", "Network error occurred")) }

\* the seconds the clock advances by between steps
Durations == {2 * QuarterHour, DefaultTTL + 1}

\* names registered in tool_handlers, and the names the model calls
ToolNames == {"get_devices"}
CalledNames == ToolNames \cup {"tool_401"}

\* how a tool handler's remote call can end
HandlerEnds ==
    { Returned(JMap(<< Field("device_count", JInt(1)) >>)),
      Raised(Exc("Exception", "401 Unauthorized")),
      Raised(Exc("GarminAuthenticationError", "Authentication failed")),
      Raised(Exc("GarminNetworkError", "Network error occurred")) }

(* State *)

Init ==
    /\ cache = EmptyCache
    /\ locked = FALSE
    /\ now = 0
    /\ ticks = 0
    /\ pc = [t \in Tasks |-> "idle"]
    /\ op = [t \in Tasks |-> NoOp]
    /\ ret = NoRet
    /\ activity_context = <<>>
    /\ call = NoCall
    /\ page = NoPage
    /\ unswept = NoShadow
    /\ phase = NoPhase
    /\ retry = NoRetry
    /\ response_cache = NoMemo
    /\ session = NoSession

\* the clock advances by d seconds
Tick(d) ==
    /\ ticks < MaxTicks
    /\ now' = now + d
    /\ ticks' = ticks + 1
    /\ UNCHANGED <<server, page, unswept, phase, cache, locked, pc, op, ret, activity_context, call>>

----------------------------------------------------------------------------
(* Concurrent calls of OverflowDataCache.store / get / cleanup_expired.    *)
(* Each call is a task: it takes _cache_lock, runs its body inside         *)
(* `async with cls._cache_lock`, and releases the lock on exit.            *)

LockFree_always(l) == TRUE

\* asyncio.Lock.acquire succeeds only while the lock is not held
LockFree(l) == ~l

\* a task calls o (store, get or cleanup_expired) and enters
\* `async with cls._cache_lock`
Acquire(t, o) ==
    /\ pc[t] = "idle"
    /\ LockFree(locked)
    /\ locked' = TRUE
    /\ pc' = [pc EXCEPT ![t] = "cs"]
    /\ op' = [op EXCEPT ![t] = o]
    /\ UNCHANGED <<server, page, unswept, phase, cache, now, ticks, ret, activity_context, call>>

\* store: lines 35-47, then the lock is released
Store(t) ==
    /\ pc[t] = "cs"
    /\ op[t].name = "store"
    /\ \E hex \in Suffixes :
         LET r == StoreBody(cache, op[t].activity_id, op[t].field_name, op[t].data,
                            op[t].ttl_seconds, now, hex)
         IN  /\ cache' = r.cache
             /\ ret' = [name |-> "store", uri |-> r.uri, data |-> op[t].data, at |-> now]
    /\ locked' = FALSE
    /\ pc' = [pc EXCEPT ![t] = "idle"]
    /\ op' = [op EXCEPT ![t] = NoOp]
    /\ UNCHANGED <<server, page, unswept, phase, now, ticks, activity_context, call>>

\* get: lines 61-72, then the lock is released
Get(t) ==
    /\ pc[t] = "cs"
    /\ op[t].name = "get"
    /\ LET r == GetBody(cache, op[t].cache_id, now)
       IN  /\ cache' = r.cache
           /\ ret' = [name |-> "get", cache_id |-> op[t].cache_id,
                      data |-> r.data, at |-> now]
    /\ locked' = FALSE
    /\ pc' = [pc EXCEPT ![t] = "idle"]
    /\ op' = [op EXCEPT ![t] = NoOp]
    /\ UNCHANGED <<server, page, unswept, phase, now, ticks, activity_context, call>>

\* cleanup_expired: lines 78-79, the list of expired keys
CleanupScan(t) ==
    /\ pc[t] = "cs"
    /\ op[t].name = "cleanup"
    /\ op' = [op EXCEPT ![t] = [name |-> "cleanup", expired |-> ExpiredKeys(cache, now)]]
    /\ pc' = [pc EXCEPT ![t] = "sweep"]
    /\ UNCHANGED <<server, page, unswept, phase, cache, locked, now, ticks, ret, activity_context, call>>

\* cleanup_expired: lines 81-82, one iteration of the deletion loop
CleanupDel(t) ==
    /\ pc[t] = "sweep"
    /\ \E k \in op[t].expired :
         /\ cache' = CacheDel(cache, k)
         /\ op' = [op EXCEPT ![t].expired = @ \ {k}]
    /\ UNCHANGED <<server, page, unswept, phase, locked, now, ticks, pc, ret, activity_context, call>>

\* cleanup_expired: the loop is over, the lock is released
CleanupExit(t) ==
    /\ pc[t] = "sweep"
    /\ op[t].expired = {}
    /\ ret' = [name |-> "cleanup", data |-> JNull, at |-> now]
    /\ locked' = FALSE
    /\ pc' = [pc EXCEPT ![t] = "idle"]
    /\ op' = [op EXCEPT ![t] = NoOp]
    /\ UNCHANGED <<server, page, unswept, phase, cache, now, ticks, activity_context, call>>

NextStore ==
    \/ \E t \in Tasks, o \in StoreOps \cup GetOps \cup CleanupOps : Acquire(t, o)
    \/ \E t \in Tasks : Store(t)
    \/ \E t \in Tasks : Get(t)
    \/ \E t \in Tasks : CleanupScan(t)
    \/ \E t \in Tasks : CleanupDel(t)
    \/ \E t \in Tasks : CleanupExit(t)
    \/ Tick(1)

SpecStore == Init /\ [][NextStore]_vars

----------------------------------------------------------------------------
(* Guarded tool calls, direct splits and resource reads.  No store task is *)
(* inside the lock when one of them runs.                                  *)

\* the keys an operation stored under: new keys and keys whose entry changed
Written(c, d) == {k \in DOMAIN d : k \notin DOMAIN c \/ d[k] # c[k]}

Quiescent == ~locked /\ \A t \in Tasks : pc[t] = "idle"

ValueOf(r) == IF r.kind = "return" THEN r.value ELSE JNull
ExcOf(r) == IF r.kind = "raise" THEN r.exc ELSE ""

\* A handler wrapped by response_size_guard returns `result` and the wrapper
\* runs (utils.py 635-651), inside the running event loop.  sets_ctx: the
\* handler is _get_advanced_running_metrics, which records its activity_id.
GuardCall(sets_ctx, aid, has_cb, result) ==
    /\ Quiescent
    /\ LET ctx == IF sets_ctx THEN DictSet(activity_context, "activity_id", aid)
                  ELSE activity_context
           cb == [present |-> TRUE, ctx |-> ctx, loop |-> "running",
                  now |-> now, hex |-> <<>>]
       IN  \E r \in {response_size_guard(result, MaxBytes, has_cb, cb, cache)} :
           /\ activity_context' = ctx
           /\ cache' = r.cache
           /\ call' = [op |-> "guard", input |-> result, has_cb |-> has_cb,
                       loop |-> "running", kind |-> r.kind, value |-> ValueOf(r),
                       exc |-> ExcOf(r),
                       written |-> Written(cache, r.cache)]
    /\ UNCHANGED <<server, page, unswept, phase, locked, now, ticks, pc, op, ret>>

\* split_large_response called from synchronous code (no loop is running),
\* with self._create_overflow_resource as callback or with none
SplitCall(data, env, hexes) ==
    /\ Quiescent
    /\ LET cb == IF env.has_cb
                 THEN [present |-> TRUE, ctx |-> activity_context, loop |-> env.loop,
                       now |-> now, hex |-> hexes]
                 ELSE [present |-> FALSE]
       IN  \E r \in {split_large_response(data, MaxBytes, cb, cache)} :
           /\ cache' = r.cache
           /\ call' = [op |-> "split", input |-> data, has_cb |-> env.has_cb,
                       loop |-> env.loop, kind |-> r.kind, value |-> ValueOf(r),
                       exc |-> ExcOf(r),
                       written |-> Written(cache, r.cache)]
    /\ UNCHANGED <<server, page, unswept, phase, locked, now, ticks, pc, op, ret, activity_context>>

\* handle_read_resource(uri)
ReadCall(uri) ==
    /\ Quiescent
    /\ \E r \in {handle_read_resource(uri, cache, now)} :
           /\ cache' = r.cache
           /\ call' = [op |-> "read", input |-> JStr(uri), has_cb |-> FALSE,
                       loop |-> "running", kind |-> r.kind, value |-> ValueOf(r),
                       exc |-> ExcOf(r),
                       written |-> Written(cache, r.cache)]
    /\ UNCHANGED <<server, page, unswept, phase, locked, now, ticks, pc, op, ret, activity_context>>

NextGuard ==
    \/ \E sets_ctx \in BOOLEAN, aid \in ActivityIds, has_cb \in BOOLEAN,
          result \in GuardResponses :
            /\ GuardCall(sets_ctx, aid, has_cb, result)
            /\ Cardinality(DOMAIN cache') <= MaxEntries
    \/ \E data \in GuardResponses, env \in SyncEnvs :
         \E hexes \in HexChoices(data, env) :
            /\ SplitCall(data, env, hexes)
            /\ Cardinality(DOMAIN cache') <= MaxEntries
    \/ \E uri \in ReadUris : ReadCall(uri)
    \/ Tick(DefaultTTL)

SpecGuard == Init /\ [][NextGuard]_vars

(* The splitter as a function of its input: the input is drawn first, then *)
(* split_large_response is applied to it once.                             *)

InitSplit ==
    /\ cache = EmptyCache
    /\ locked = FALSE
    /\ now = 0
    /\ ticks = 0
    /\ pc = [t \in Tasks |-> "idle"]
    /\ op = [t \in Tasks |-> NoOp]
    /\ ret = NoRet
    /\ activity_context = <<>>
    /\ call \in {[op |-> "input", input |-> d] : d \in SplitInputs}
    /\ page = NoPage
    /\ unswept = NoShadow
    /\ phase = NoPhase
    /\ retry = NoRetry
    /\ response_cache = NoMemo
    /\ session = NoSession

NextSplit ==
    /\ call.op = "input"
    /\ \E env \in SyncEnvs :
         \E hexes \in HexChoices(call.input, env) : SplitCall(call.input, env, hexes)

SpecSplit == InitSplit /\ [][NextSplit]_vars

----------------------------------------------------------------------------
(* The cursor codec, the pagination envelope and the field classifier as   *)
(* functions of their inputs: the input is drawn first, then the function  *)
(* is applied to it once.                                                  *)

InitUtils ==
    /\ cache = EmptyCache
    /\ locked = FALSE
    /\ now = 0
    /\ ticks = 0
    /\ pc = [t \in Tasks |-> "idle"]
    /\ op = [t \in Tasks |-> NoOp]
    /\ ret = NoRet
    /\ activity_context = <<>>
    /\ call \in {[op |-> "state", input |-> st] : st \in CursorStates}
                \cup {[op |-> "token", input |-> tok] : tok \in CursorTokens}
                \cup PageArgs \cup FieldArgs
    /\ page = NoPage
    /\ unswept = NoShadow
    /\ phase = NoPhase
    /\ retry = NoRetry
    /\ response_cache = NoMemo
    /\ session = NoSession

\* decode_cursor(encode_cursor(state))
RoundTripCall ==
    /\ call.op = "state"
    /\ \E tok \in {encode_cursor(call.input)} :
         call' = [op |-> "roundtrip", input |-> call.input, token |-> tok,
                  value |-> decode_cursor(tok)]
    /\ UNCHANGED <<server, cache, locked, now, ticks, pc, op, ret, activity_context,
                   page, unswept, phase>>

\* decode_cursor(token)
DecodeCall ==
    /\ call.op = "token"
    /\ call' = [op |-> "decode", input |-> call.input, value |-> decode_cursor(call.input)]
    /\ UNCHANGED <<server, cache, locked, now, ticks, pc, op, ret, activity_context,
                   page, unswept, phase>>

\* create_pagination_response(items, cursor_data, page_size, has_more)
PaginateCall ==
    /\ call.op = "page_args"
    /\ call' = [call EXCEPT !.op = "paginate"]
                  @@ [value |-> create_pagination_response(call.items, call.cursor_data,
                                                           call.page_size, call.has_more)]
    /\ UNCHANGED <<server, cache, locked, now, ticks, pc, op, ret, activity_context,
                   page, unswept, phase>>

\* is_large_field(key, value, threshold)
ClassifyCall ==
    /\ call.op = "field"
    /\ call' = [call EXCEPT !.op = "classify"]
                  @@ [verdict |-> is_large_field(call.key, call.value, call.threshold)]
    /\ UNCHANGED <<server, cache, locked, now, ticks, pc, op, ret, activity_context,
                   page, unswept, phase>>

NextUtils ==
    \/ RoundTripCall
    \/ DecodeCall
    \/ PaginateCall
    \/ ClassifyCall

SpecUtils == InitUtils /\ [][NextUtils]_vars

----------------------------------------------------------------------------
(* A client pages through a listing of the first n of Activities with page *)
(* size limit: it starts without a cursor and sends back the nextCursor of *)
(* each response until a response carries none.  A client may also send a *)
(* cursor no response gave it.                                             *)

Listings ==
    [op : {"listing"}, handler : {"recent", "list"}, n : 0..MaxItems, limit : 1..MaxLimit,
     cursor : {""}, got : {<<>>}, responses : {<<>>}, done : {FALSE},
     restarted : {FALSE}, memo : {EmptyCache}]

InitList ==
    /\ cache = EmptyCache
    /\ locked = FALSE
    /\ now = 0
    /\ ticks = 0
    /\ pc = [t \in Tasks |-> "idle"]
    /\ op = [t \in Tasks |-> NoOp]
    /\ ret = NoRet
    /\ activity_context = <<>>
    /\ call = NoCall
    /\ page \in Listings
    /\ unswept = NoShadow
    /\ phase = NoPhase
    /\ retry = NoRetry
    /\ response_cache = NoMemo
    /\ session = NoSession

\* the handler called with the given cursor: [kind, value | exc, memo]
Listing(cursor) ==
    IF page.handler = "recent"
    THEN get_recent_running_activities(Slice(Activities, 0, page.n), cursor,
                                       page.limit, page.memo)
    ELSE resource_activities_list(Slice(Activities, 0, page.n), cursor, page.limit)
            @@ [memo |-> page.memo]

IsPage(r) == r.kind = "return" /\ ~DictHas(r.value.fields, "error")

ListCallOf(cursor, r) ==
    [op |-> "list", cursor |-> cursor, kind |-> r.kind, value |-> ValueOf(r),
     exc |-> ExcOf(r)]

\* the client requests the next page
RequestPage ==
    /\ page.op = "listing"
    /\ ~page.done
    /\ \E r \in {Listing(page.cursor)} :
         /\ call' = ListCallOf(page.cursor, r)
         /\ page' =
              IF IsPage(r)
              THEN LET pg == DictGet(r.value.fields, "pagination").fields IN
                   [page EXCEPT
                      !.got = @ \o DictGet(r.value.fields, "items").items,
                      !.responses = Append(@, r.value),
                      !.cursor = IF DictHas(pg, "nextCursor")
                                 THEN DictGet(pg, "nextCursor").s ELSE @,
                      !.done = ~DictHas(pg, "nextCursor"),
                      !.memo = r.memo]
              ELSE [page EXCEPT !.done = TRUE]
    /\ UNCHANGED <<server, cache, locked, now, ticks, pc, op, ret, activity_context,
                   unswept, phase>>

\* one request with a cursor of the client's own making, before it starts paging
ForeignCall(tok) ==
    /\ page.op = "listing"
    /\ call = NoCall
    /\ \E r \in {Listing(tok)} :
         /\ call' = ListCallOf(tok, r)
         /\ page' = [page EXCEPT !.memo = r.memo]
    /\ UNCHANGED <<server, cache, locked, now, ticks, pc, op, ret, activity_context,
                   unswept, phase>>

\* the client pages through the listing a second time
Restart ==
    /\ page.op = "listing"
    /\ page.done
    /\ ~page.restarted
    /\ page' = [page EXCEPT !.cursor = "", !.got = <<>>, !.responses = <<>>,
                            !.done = FALSE, !.restarted = TRUE]
    /\ UNCHANGED <<server, cache, locked, now, ticks, pc, op, ret, activity_context,
                   call, unswept, phase>>

NextList ==
    \/ RequestPage
    \/ \E tok \in CursorTokens : ForeignCall(tok)
    \/ Restart

SpecList == InitList /\ [][NextList]_vars

----------------------------------------------------------------------------
(* Sequential use of the overflow store: put, get and sweep calls one after *)
(* the other over an advancing clock, each call running its whole body      *)
(* under _cache_lock.  Beside _cache the model keeps                        *)
(*   unswept: the store and the results of the same puts and gets in a run  *)
(*            without the sweeps, and the keys the sweeps have deleted;     *)
(*   phase:   the history of each key (absent, stored, gone) and the keys   *)
(*            for which a get has reported not-found after they were stored *)

InitLife ==
    /\ cache = EmptyCache
    /\ locked = FALSE
    /\ now = 0
    /\ ticks = 0
    /\ pc = [t \in Tasks |-> "idle"]
    /\ op = [t \in Tasks |-> NoOp]
    /\ ret = NoRet
    /\ activity_context = <<>>
    /\ call = NoCall
    /\ page = NoPage
    /\ unswept = [op |-> "shadow", cache |-> EmptyCache, ret |-> NoRet, swept |-> {}]
    /\ phase = [op |-> "phase", of |-> [k \in StoreKeys |-> "absent"], missed |-> {}]
    /\ retry = NoRetry
    /\ response_cache = NoMemo
    /\ session = NoSession

\* the history of the keys after a call that left the store as c; miss: the
\* stored-before keys a get has just reported not-found
PhaseAfter(c, miss) ==
    [phase EXCEPT
       !.of = [k \in StoreKeys |->
                 IF k \in DOMAIN c THEN "stored"
                 ELSE IF phase.of[k] = "absent" THEN "absent" ELSE "gone"],
       !.missed = @ \cup miss]

\* store(activity_id, field_name, data, ttl_seconds); hex is uuid4().hex[:8]
PutEntry(o, hex) ==
    /\ phase.op = "phase"
    /\ LET r == StoreBody(cache, o.activity_id, o.field_name, o.data,
                          o.ttl_seconds, now, hex)
           u == StoreBody(unswept.cache, o.activity_id, o.field_name, o.data,
                          o.ttl_seconds, now, hex)
       IN  /\ cache' = r.cache
           /\ ret' = [name |-> "store", uri |-> r.uri, data |-> o.data]
           /\ unswept' = [unswept EXCEPT
                            !.cache = u.cache,
                            !.ret = [name |-> "store", uri |-> u.uri, data |-> o.data]]
           /\ phase' = PhaseAfter(r.cache, {})
    /\ UNCHANGED <<server, locked, now, ticks, pc, op, activity_context, call, page>>

\* get(cache_id)
GetEntry(cache_id) ==
    /\ phase.op = "phase"
    /\ LET r == GetBody(cache, cache_id, now)
           u == GetBody(unswept.cache, cache_id, now)
       IN  /\ cache' = r.cache
           /\ ret' = [name |-> "get", cache_id |-> cache_id, data |-> r.data]
           /\ unswept' = [unswept EXCEPT
                            !.cache = u.cache,
                            !.ret = [name |-> "get", cache_id |-> cache_id,
                                     data |-> u.data]]
           /\ phase' = PhaseAfter(r.cache,
                                  IF r.data = JNull /\ cache_id \in StoreKeys
                                     /\ phase.of[cache_id] # "absent"
                                  THEN {cache_id} ELSE {})
    /\ UNCHANGED <<server, locked, now, ticks, pc, op, activity_context, call, page>>

\* cleanup_expired()
Sweep ==
    /\ phase.op = "phase"
    /\ LET r == cleanup_expired(cache, now)
       IN  /\ cache' = r.cache
           /\ ret' = [name |-> "cleanup", value |-> r.value, expired |-> r.expired,
                      at |-> now]
           /\ unswept' = [unswept EXCEPT !.swept = @ \cup r.expired]
           /\ phase' = PhaseAfter(r.cache, {})
    /\ UNCHANGED <<server, locked, now, ticks, pc, op, activity_context, call, page>>

\* the puts of this specification all have the same time to live: their
\* entries differ in expiry by the time of the put
LifeOps == {o \in StoreOps : o.ttl_seconds = 1}

NextLife ==
    \/ \E o \in LifeOps, hex \in Suffixes : PutEntry(o, hex)
    \/ \E g \in GetOps : GetEntry(g.cache_id)
    \/ Sweep
    \/ Tick(1)

SpecLife == InitLife /\ [][NextLife]_vars

----------------------------------------------------------------------------
(* One call of a function wrapped by with_retry.  retry holds the wrapper's *)
(* position (pc: "invoke", "sleep", "returned", "raised"), the loop index   *)
(* attempt, the number of invocations of the wrapped function, the          *)
(* exceptions it raised and the sleeps made so far.                         *)

InitRetry ==
    /\ cache = EmptyCache
    /\ locked = FALSE
    /\ now = 0
    /\ ticks = 0
    /\ pc = [t \in Tasks |-> "idle"]
    /\ op = [t \in Tasks |-> NoOp]
    /\ ret = NoRet
    /\ activity_context = <<>>
    /\ call = NoCall
    /\ page = NoPage
    /\ unswept = NoShadow
    /\ phase = NoPhase
    /\ retry \in {[op |-> "retry", max_attempts |-> a.max_attempts, delay |-> a.delay,
                   retry_on |-> a.retry_on, pc |-> "invoke", attempt |-> 0,
                   invocations |-> 0, errors |-> <<>>, sleeps |-> <<>>, wait |-> 0,
                   value |-> JNull, exc |-> Exc("", "")] : a \in RetryArgs}
    /\ response_cache = NoMemo
    /\ session = NoSession

\* the loop body: the wrapped function is invoked and returns or raises
Invoke(outcome) ==
    /\ retry.op = "retry"
    /\ retry.pc = "invoke"
    /\ retry.attempt < retry.max_attempts
    /\ retry' = RetryStep(retry, outcome)
    /\ UNCHANGED <<cache, locked, now, ticks, pc, op, ret, activity_context, call,
                   page, unswept, phase, response_cache, session>>

\* await asyncio.sleep(wait_time) ends and the loop goes on
Sleep ==
    /\ retry.op = "retry"
    /\ retry.pc = "sleep"
    /\ retry' = [retry EXCEPT !.pc = "invoke", !.attempt = @ + 1,
                              !.sleeps = Append(@, retry.wait)]
    /\ UNCHANGED <<cache, locked, now, ticks, pc, op, ret, activity_context, call,
                   page, unswept, phase, response_cache, session>>

\* range(max_attempts) is empty: `raise last_exception` with last_exception None
NoAttempt ==
    /\ retry.op = "retry"
    /\ retry.pc = "invoke"
    /\ retry.max_attempts = 0
    /\ retry' = [retry EXCEPT !.pc = "raised",
                   !.exc = Exc("TypeError", "exceptions must derive from BaseException")]
    /\ UNCHANGED <<cache, locked, now, ticks, pc, op, ret, activity_context, call,
                   page, unswept, phase, response_cache, session>>

NextRetry ==
    \/ \E outcome \in RetryOutcomes : Invoke(outcome)
    \/ Sleep
    \/ NoAttempt

\* the event loop runs the coroutine: an invocation ends and a sleep elapses
SpecRetry == InitRetry /\ [][NextRetry]_vars /\ WF_vars(NextRetry)

----------------------------------------------------------------------------
\* the fields of a response the splitter diverts: none within budget
LargeFields(data) ==
    IF data.t = "map" /\ estimate_json_size(data) > MaxBytes
    THEN {i \in 1..Len(data.fields) :
            is_large_field(data.fields[i].k, data.fields[i].v, DiversionThreshold)}
    ELSE {}

\* the fields of a response that match a heavy-field pattern and exceed the threshold
EligibleFields(data) ==
    IF data.t = "map"
    THEN {i \in 1..Len(data.fields) :
            /\ NameMatches(data.fields[i].k)
            /\ estimate_json_size(data.fields[i].v) > DiversionThreshold}
    ELSE {}

IsOverflowUri(v) == v.t = "str" /\ StartsWith(v.s, "overflow://")

----------------------------------------------------------------------------
(* Concurrent tool calls through the decorators.  Each call is a task: it  *)
(* enters its handler (validate_required_params, the lookup of cached, the   *)
(* start of the body up to its first await) and later leaves it (the body    *)
(* ends, then response_size_guard, the store of cached, handle_api_errors).  *)
(* response_cache.store is utils._cache; call is the last call that          *)
(* returned, with what it found and did.                                     *)

InitTools ==
    /\ cache = EmptyCache
    /\ locked = FALSE
    /\ now = 0
    /\ ticks = 0
    /\ pc = [t \in Tasks |-> "idle"]
    /\ op = [t \in Tasks |-> NoOp]
    /\ ret = NoRet
    /\ activity_context = <<>>
    /\ call = NoCall
    /\ page = NoPage
    /\ unswept = NoShadow
    /\ phase = NoPhase
    /\ retry = NoRetry
    /\ response_cache = [op |-> "cached", store |-> EmptyCache, calls |-> 0]
    /\ session = NoSession

\* the event loop the handlers run in: they are coroutines
HandlerLoop_idle == "idle"

HandlerLoop == "running"

\* str(e) of what split_large_response raises inside the guard
GuardExc(type) ==
    IF type = "RuntimeError" THEN Exc(type, "This event loop is already running")
    ELSE Exc(type, "'list' object has no attribute 'items'")

\* the overflow references in a response
UrisOf(v) ==
    IF v.t = "map"
    THEN {v.fields[i].v.s : i \in {j \in 1..Len(v.fields) : IsOverflowUri(v.fields[j].v)}}
    ELSE {}

\* the references OverflowDataCache.get would not resolve at time t
Dangling(v, c, t) ==
    {u \in UrisOf(v) : GetBody(c, SplitSlashes1(u), t).data = JNull}

\* the record of a call that has returned value, the overflow store being c
Done(h, args, hit, invoked, result, value, diverted, ns, c) ==
    [op |-> "tool", h |-> h, args |-> args,
     key |-> cache_key(h.name, args), hit |-> hit, invoked |-> invoked,
     result |-> result, value |-> value,
     fresh_before |-> h.cached /\ CacheHit(response_cache.store, cache_key(h.name, args), now),
     age |-> IF hit
             THEN now - (response_cache.store[cache_key(h.name, args)].expires_at
                         - cache_duration(h.name, h.deco) * QuarterHour)
             ELSE 0,
     diverted |-> diverted, ns |-> ns, dangling |-> Dangling(value, c, now)]

\* the last call that returned was a call of the same function with the same
\* arguments whose wrapped function gave an error result
AfterError(key) ==
    /\ call.op = "tool"
    /\ call.key = key
    /\ call.invoked
    /\ call.result.kind = "return"
    /\ call.value.t = "map"
    /\ DictHas(call.value.fields, "error")

\* handle_call_tool dispatches to handler h with args: the call returns at
\* once (a required parameter is missing, or cached has a fresh entry) or
\* the body starts and awaits its first remote call
Enter(t, h, args) ==
    /\ pc[t] = "idle"
    /\ response_cache.calls < MaxCalls
    /\ LET key == cache_key(h.name, args)
           invalid == validate_required_params(h.required, args)
       IN  IF invalid # JNull
           THEN /\ call' = Done(h, args, FALSE, FALSE, JNull, invalid, FALSE, "", cache)
                /\ UNCHANGED <<pc, op, activity_context>>
           ELSE IF h.cached /\ CacheHit(response_cache.store, key, now)
           THEN /\ call' = Done(h, args, TRUE, FALSE, JNull,
                                response_cache.store[key].data, FALSE, "", cache)
                /\ UNCHANGED <<pc, op, activity_context>>
           ELSE /\ pc' = [pc EXCEPT ![t] = "fetching"]
                /\ op' = [op EXCEPT ![t] = [name |-> "tool", h |-> h, args |-> args, key |-> key,
                                            after_error |-> AfterError(key)]]
                /\ activity_context' =
                     IF h.sets_ctx
                     THEN DictSet(activity_context, "activity_id",
                                  DictGet(args, "activity_id").s)
                     ELSE activity_context
                /\ UNCHANGED call
    /\ response_cache' = [response_cache EXCEPT !.calls = @ + 1]
    /\ UNCHANGED <<retry, session, cache, locked, now, ticks, ret, page, unswept, phase>>

\* what the guarded (or unguarded) body hands to cached or handle_api_errors
Guarded(h, body) ==
    IF body.kind = "raise" \/ ~h.guarded
    THEN body @@ [cache |-> cache]
    ELSE CHOOSE out \in {
            IF r.kind = "raise"
            THEN [kind |-> "raise", exc |-> GuardExc(r.exc), cache |-> r.cache]
            ELSE r :
            r \in {response_size_guard(body.value, MaxBytes, TRUE,
                                       [present |-> TRUE, ctx |-> activity_context,
                                        loop |-> HandlerLoop, now |-> now,
                                        hex |-> HexTable],
                                       cache)} } : TRUE

\* how the body task t is inside can end
Ends(t) == IF pc[t] = "fetching" THEN Bodies(op[t].h) ELSE {}

\* the body of the call of task t ends as `body`
Leave(t, body) ==
    /\ pc[t] = "fetching"
    /\ LET h == op[t].h
           diverted == h.guarded /\ body.kind = "return" /\ LargeFields(body.value) # {}
       IN  \E g \in {Guarded(h, body)} :
           /\ cache' = g.cache
           /\ response_cache' =
                [response_cache EXCEPT
                   !.store = IF h.cached /\ g.kind = "return"
                             THEN cached_store(@, op[t].key, g.value, now,
                                               cache_duration(h.name, h.deco))
                             ELSE @]
           /\ call' = Done(h, op[t].args, FALSE, TRUE, body,
                           handle_api_errors(g), diverted,
                           IF diverted THEN ContextActivityId(activity_context) ELSE "",
                           g.cache)
    /\ pc' = [pc EXCEPT ![t] = "idle"]
    /\ op' = [op EXCEPT ![t] = NoOp]
    /\ UNCHANGED <<retry, session, locked, now, ticks, ret, activity_context,
                   page, unswept, phase>>

\* the clock advances by d seconds
Elapse(d) ==
    /\ ticks < MaxTicks
    /\ now' = now + d
    /\ ticks' = ticks + 1
    /\ UNCHANGED <<server, page, unswept, phase, cache, locked, pc, op, ret,
                   activity_context, call>>

\* calls of the cached handlers
NextCached ==
    \/ \E t \in Tasks, h \in {x \in ToolHandlers : x.cached} :
          \E args \in ToolArgs(h) : Enter(t, h, args)
    \/ \E t \in Tasks : \E body \in Ends(t) : Leave(t, body)
    \/ \E d \in Durations : Elapse(d)

SpecCached == InitTools /\ [][NextCached]_vars

\* calls of the size-guarded handlers
NextTools ==
    \/ \E t \in Tasks, h \in {x \in ToolHandlers : x.guarded} :
          \E args \in ToolArgs(h) : Enter(t, h, args)
    \/ \E t \in Tasks : \E body \in Ends(t) : Leave(t, body)
    \/ \E d \in Durations : Elapse(d)

SpecTools == InitTools /\ [][NextTools]_vars

----------------------------------------------------------------------------
(* Authentication of the session.  A tool call first awaits                *)
(* _ensure_authenticated (main.py 842), which holds _auth_lock around        *)
(* _authenticate; a read of activity://list awaits _authenticate itself      *)
(* (main.py 3219).  _authenticate, with its retries, is one span: it starts  *)
(* when the client is created and ends when a login has succeeded or the     *)
(* last one has failed.                                                      *)

ReauthHours == 6

\* _last_auth_time: [set |-> FALSE] is None
NoTime == [set |-> FALSE, at |-> 0]
Time(t) == [set |-> TRUE, at |-> t]

InitSession ==
    /\ cache = EmptyCache
    /\ locked = FALSE
    /\ now = 0
    /\ ticks = 0
    /\ pc = [t \in Tasks |-> "idle"]
    /\ op = [t \in Tasks |-> NoOp]
    /\ ret = NoRet
    /\ activity_context = <<>>
    /\ call = NoCall
    /\ page = NoPage
    /\ unswept = NoShadow
    /\ phase = NoPhase
    /\ retry = NoRetry
    /\ response_cache = NoMemo
    /\ session = [op |-> "session", garmin_client |-> "None", last_auth_time |-> NoTime,
                  auth_lock |-> 0, calls |-> 0]

\* _should_reauthenticate at time t
should_reauthenticate(s, t) ==
    IF ~s.last_auth_time.set THEN TRUE
    ELSE (t - s.last_auth_time.at) > ReauthHours * 4 * QuarterHour

\* "authentication" in str(e).lower() or "401" in str(e)
IsAuthError(msg) == Contains(Lower(msg), "authentication") \/ Contains(msg, "401")

\* the except branch of handle_call_tool, main.py 852-858
ResetOnAuthError(s, msg) ==
    IF IsAuthError(msg)
    THEN [s EXCEPT !.garmin_client = "None", !.last_auth_time = NoTime]
    ELSE s

\* _authenticate up to its first await: without credentials it raises at
\* once, else it creates the client if there is none
AuthStart(s, has_creds) ==
    IF ~has_creds
    THEN [kind |-> "raise", session |-> s,
          exc |-> Exc("ValueError", "Authentication failed. Please ensure GARMIN_USERNAME and GARMIN_PASSWORD are set in environment variables.")]
    ELSE [kind |-> "await", session |-> [s EXCEPT !.garmin_client = "client"]]

\* _ensure_authenticated, the lock being free: [kind |-> "done"] when the
\* session needs no authentication
ensure_authenticated(s, t, time, has_creds) ==
    IF s.garmin_client = "None" \/ should_reauthenticate(s, time)
    THEN CHOOSE out \in {
            IF a.kind = "raise" THEN a
            ELSE [kind |-> "await", session |-> [a.session EXCEPT !.auth_lock = t]] :
            a \in {AuthStart(s, has_creds)} } : TRUE
    ELSE [kind |-> "done", session |-> s]

\* the record of a tool call or resource read that has ended
Ended(o, name, kind, text, auth_failure) ==
    [op |-> o, name |-> name, kind |-> kind, text |-> text,
     auth_failure |-> auth_failure]

\* the try block of handle_call_tool, the session s being authenticated: an
\* unknown name raises ValueError into the except branch, a known one awaits
\* its handler
Dispatch(t, name, s) ==
    IF name \notin ToolNames
    THEN /\ session' = ResetOnAuthError(s, "Unknown tool: " \o name)
         /\ pc' = [pc EXCEPT ![t] = "idle"]
         /\ op' = [op EXCEPT ![t] = NoOp]
         /\ call' = Ended("call_tool", name, "return",
                          "Error: Unknown tool: " \o name, FALSE)
    ELSE /\ session' = s
         /\ pc' = [pc EXCEPT ![t] = "handler"]
         /\ op' = [op EXCEPT ![t] = [name |-> "call_tool", tool |-> name]]
         /\ UNCHANGED call

\* handle_call_tool from its first line, the lock being free
Proceed(t, name, has_creds, s) ==
    \E r \in {ensure_authenticated(s, t, now, has_creds)} :
       CASE r.kind = "raise" ->
              \* out of _ensure_authenticated and out of handle_call_tool
              /\ session' = r.session
              /\ pc' = [pc EXCEPT ![t] = "idle"]
              /\ op' = [op EXCEPT ![t] = NoOp]
              /\ call' = Ended("call_tool", name, "raise", r.exc.msg, FALSE)
         [] r.kind = "await" ->
              /\ session' = r.session
              /\ pc' = [pc EXCEPT ![t] = "authenticating"]
              /\ op' = [op EXCEPT ![t] = [name |-> "call_tool", tool |-> name]]
              /\ UNCHANGED call
         [] OTHER -> Dispatch(t, name, r.session)

\* handle_call_tool(name, arguments) starts
CallTool(t, name, has_creds) ==
    /\ pc[t] = "idle"
    /\ session.calls < MaxCalls
    /\ IF session.auth_lock # 0
       THEN /\ pc' = [pc EXCEPT ![t] = "waiting"]
            /\ op' = [op EXCEPT ![t] = [name |-> "call_tool", tool |-> name]]
            /\ session' = [session EXCEPT !.calls = @ + 1]
            /\ UNCHANGED call
       ELSE Proceed(t, name, has_creds, [session EXCEPT !.calls = @ + 1])
    /\ UNCHANGED <<retry, response_cache, cache, locked, now, ticks, ret,
                   activity_context, page, unswept, phase>>

\* a tool call waiting for _auth_lock gets it
Granted(t, has_creds) ==
    /\ pc[t] = "waiting"
    /\ session.auth_lock = 0
    /\ Proceed(t, op[t].tool, has_creds, session)
    /\ UNCHANGED <<retry, response_cache, cache, locked, now, ticks, ret,
                   activity_context, page, unswept, phase>>

\* handle_read_resource("activity://list") starts: _resource_activities_list
\* awaits _authenticate
ReadResource(t, has_creds) ==
    /\ pc[t] = "idle"
    /\ session.calls < MaxCalls
    /\ \E a \in {AuthStart([session EXCEPT !.calls = @ + 1], has_creds)} :
         IF a.kind = "raise"
         THEN /\ session' = a.session
              /\ call' = Ended("read_resource", "activity://list", "raise",
                               a.exc.msg, FALSE)
              /\ UNCHANGED <<pc, op>>
         ELSE /\ session' = a.session
              /\ pc' = [pc EXCEPT ![t] = "authenticating"]
              /\ op' = [op EXCEPT ![t] = [name |-> "read_resource",
                                          tool |-> "activity://list"]]
              /\ UNCHANGED call
    /\ UNCHANGED <<retry, response_cache, cache, locked, now, ticks, ret,
                   activity_context, page, unswept, phase>>

\* _authenticate ends for task t: a login succeeded (ok), or the credential
\* login failed on the last attempt
AuthEnd(t, ok) ==
    /\ pc[t] = "authenticating"
    /\ IF op[t].name = "call_tool"
       THEN IF ok
            THEN Dispatch(t, op[t].tool,
                          [session EXCEPT !.last_auth_time = Time(now), !.auth_lock = 0])
            ELSE /\ session' = [session EXCEPT !.garmin_client = "None", !.auth_lock = 0]
                 /\ pc' = [pc EXCEPT ![t] = "idle"]
                 /\ op' = [op EXCEPT ![t] = NoOp]
                 /\ call' = Ended("call_tool", op[t].tool, "raise",
                                  "Credential login failed", FALSE)
       ELSE IF ok
            THEN /\ pc' = [pc EXCEPT ![t] = "listing"]
                 /\ UNCHANGED <<session, op, call>>
            ELSE /\ session' = [session EXCEPT !.garmin_client = "None"]
                 /\ pc' = [pc EXCEPT ![t] = "idle"]
                 /\ op' = [op EXCEPT ![t] = NoOp]
                 /\ call' = Ended("read_resource", op[t].tool, "raise",
                                  "Credential login failed", FALSE)
    /\ UNCHANGED <<retry, response_cache, cache, locked, now, ticks, ret,
                   activity_context, page, unswept, phase>>

\* the handler of task t's tool call ends: handle_api_errors turns an
\* exception into an error map, and handle_call_tool returns its text
HandlerEnd(t, outcome) ==
    /\ pc[t] = "handler"
    /\ \E result \in {handle_api_errors(outcome)} :
         call' = Ended("call_tool", op[t].tool, "return",
                       IF result.t = "map" /\ DictHas(result.fields, "error")
                       THEN DictGet(result.fields, "error").s ELSE "ok",
                       outcome.kind = "raise" /\ IsAuthError(outcome.exc.msg))
    /\ pc' = [pc EXCEPT ![t] = "idle"]
    /\ op' = [op EXCEPT ![t] = NoOp]
    /\ UNCHANGED <<server, cache, locked, now, ticks, ret,
                   activity_context, page, unswept, phase>>

\* the listing of task t's resource read ends
ResourceEnd(t) ==
    /\ pc[t] = "listing"
    /\ call' = Ended("read_resource", op[t].tool, "return", "ok", FALSE)
    /\ pc' = [pc EXCEPT ![t] = "idle"]
    /\ op' = [op EXCEPT ![t] = NoOp]
    /\ UNCHANGED <<server, cache, locked, now, ticks, ret,
                   activity_context, page, unswept, phase>>

\* the seconds the clock advances by: six hours, and one second more
SessionDurations == {ReauthHours * 4 * QuarterHour, 1}

NextSession ==
    \/ \E t \in Tasks, name \in CalledNames, has_creds \in BOOLEAN :
          CallTool(t, name, has_creds)
    \/ \E t \in Tasks, has_creds \in BOOLEAN : Granted(t, has_creds)
    \/ \E t \in Tasks, has_creds \in BOOLEAN : ReadResource(t, has_creds)
    \/ \E t \in Tasks, ok \in BOOLEAN : AuthEnd(t, ok)
    \/ \E t \in Tasks, outcome \in HandlerEnds : HandlerEnd(t, outcome)
    \/ \E t \in Tasks : ResourceEnd(t)
    \/ \E d \in SessionDurations : Elapse(d)

SpecSession == InitSession /\ [][NextSession]_vars

----------------------------------------------------------------------------
(* Properties *)

\* C1: a guarded call whose result has estimated size <= max_bytes returns that
\* result unchanged and writes nothing to the overflow store, also when one
\* name-matching field alone exceeds the 50,000-byte diversion threshold.
C1_PassThrough ==
    (call.op = "guard" /\ estimate_json_size(call.input) <= MaxBytes)
        => /\ call.kind = "return"
           /\ call.value = call.input
           /\ call.written = {}

C1_Witness ==
    /\ call.op = "guard"
    /\ estimate_json_size(call.input) <= MaxBytes
    /\ EligibleFields(call.input) # {}
    /\ call.kind = "return"
    /\ call.value = call.input

\* C2: when the guard diverts a field f, the returned map holds under f_resource
\* an overflow:// URI of a stored entry holding f's value, and a resource read of
\* an overflow:// URI whose entry is present and unexpired returns that value.
C2_RoundTrip ==
    /\ (call.op = "guard" /\ call.has_cb /\ LargeFields(call.input) # {})
         => /\ call.kind = "return"
            /\ \A i \in LargeFields(call.input) :
                 LET f == call.input.fields[i].k
                     out == call.value.fields
                 IN  /\ DictHas(out, f \o "_resource")
                     /\ IsOverflowUri(DictGet(out, f \o "_resource"))
                     /\ SplitSlashes1(DictGet(out, f \o "_resource").s) \in DOMAIN cache
                     /\ cache[SplitSlashes1(DictGet(out, f \o "_resource").s)].data
                            = call.input.fields[i].v
    /\ (/\ call.op = "read"
        /\ StartsWith(call.input.s, "overflow://")
        /\ SplitSlashes1(call.input.s) \in DOMAIN cache)
         => /\ call.kind = "return"
            /\ call.value = [t |-> "text", of |-> cache[SplitSlashes1(call.input.s)].data]

\* C3: the guarded call returns a value for every result of the wrapped
\* operation and raises no exception.
C3_NeverRaises == call.op = "guard" => call.kind = "return"

\* C4: the splitter, given an over-budget map and a store callback that succeeds,
\* keeps every field it does not divert under its key with its value, and replaces
\* every diverted field f by f_resource (an overflow:// URI) and f_note.
C4_OutputShape ==
    (/\ call.op = "split" /\ call.has_cb /\ call.loop = "idle"
     /\ call.kind = "return"
     /\ call.input.t = "map" /\ estimate_json_size(call.input) > MaxBytes)
        => \A i \in 1..Len(call.input.fields) :
             LET f == call.input.fields[i].k
                 v == call.input.fields[i].v
                 out == call.value.fields
             IN  IF i \in LargeFields(call.input)
                 THEN /\ ~DictHas(out, f)
                      /\ DictHas(out, f \o "_resource")
                      /\ IsOverflowUri(DictGet(out, f \o "_resource"))
                      /\ DictHas(out, f \o "_note")
                 ELSE /\ DictHas(out, f)
                      /\ DictGet(out, f) = v

\* C5: one invocation of the guard or of the splitter, with the store callback,
\* writes exactly one overflow store entry per diverted field and none when
\* nothing is diverted or the response is within budget.
C5_StoreWrites ==
    (call.op \in {"guard", "split"} /\ call.has_cb)
        => Cardinality(call.written) = Cardinality(LargeFields(call.input))

GetStep(t) == pc[t] = "cs" /\ op[t].name = "get" /\ pc'[t] = "idle"
StoreStep(t) == pc[t] = "cs" /\ op[t].name = "store" /\ pc'[t] = "idle"

\* C7 as stated: get returns the payload iff the entry is present and
\* now < expires_at, and at every now >= expires_at removes it and reports not-found.
C7_Original ==
    [][\A t \in Tasks : GetStep(t) =>
          LET k == op[t].cache_id IN
          /\ ret'.data = (IF k \in DOMAIN cache /\ now < cache[k].expires_at
                          THEN cache[k].data ELSE JNull)
          /\ (k \in DOMAIN cache /\ now >= cache[k].expires_at) => k \notin DOMAIN cache'
      ]_vars

\* C7 amended: an entry stored at t0 with ttl has expires_at = t0 + ttl; get returns
\* the payload iff the entry is present and now <= expires_at, leaving the store
\* unchanged; at every now > expires_at it removes the entry and reports not-found.
C7_GetTTL ==
    [][\A t \in Tasks :
          /\ StoreStep(t) =>
               cache'[SplitSlashes1(ret'.uri)].expires_at = now + op[t].ttl_seconds
          /\ GetStep(t) =>
               LET k == op[t].cache_id IN
               /\ ret'.data = (IF k \in DOMAIN cache /\ now <= cache[k].expires_at
                               THEN cache[k].data ELSE JNull)
               /\ (k \in DOMAIN cache /\ now <= cache[k].expires_at) => cache' = cache
               /\ (k \in DOMAIN cache /\ now > cache[k].expires_at)
                      => cache' = CacheDel(cache, k)
      ]_vars

\* a get at exactly expires_at has returned the payload
C7_Witness ==
    /\ ret.name = "get"
    /\ ret.data # JNull
    /\ ret.cache_id \in DOMAIN cache
    /\ cache[ret.cache_id].expires_at = ret.at
    /\ now = ret.at

\* C8: every put returns a key no earlier put's entry is stored under, so no put
\* overwrites an entry and each key keeps its own payload.
C8_Isolation ==
    [][\A t \in Tasks : StoreStep(t) => SplitSlashes1(ret'.uri) \notin DOMAIN cache]_vars

\* C9: at most one store, get or cleanup_expired is inside the critical section,
\* the lock is held exactly then, and the keys a sweep is about to delete are
\* still stored: no other call has run since the sweep listed them.
C9_MutualExclusion ==
    /\ Cardinality({t \in Tasks : pc[t] \in {"cs", "sweep"}}) <= 1
    /\ locked <=> \E t \in Tasks : pc[t] \in {"cs", "sweep"}
    /\ \A t \in Tasks : pc[t] = "sweep" => op[t].expired \subseteq DOMAIN cache

\* a sweep holds the lock with keys still to delete while another task is
\* about to call the store
C9_Witness ==
    \E t, u \in Tasks :
        /\ pc[t] = "sweep" /\ op[t].expired # {} /\ locked
        /\ u # t /\ pc[u] = "idle"

\* C10: a resource read of overflow://{key} whose key is not stored, or has
\* expired, returns the "not found or expired" payload and raises nothing.
C10_MissNotError ==
    (/\ call.op = "read"
     /\ StartsWith(call.input.s, "overflow://")
     /\ SplitSlashes1(call.input.s) \notin DOMAIN cache)
        => /\ call.kind = "return"
           /\ call.value = [t |-> "text",
                            of |-> NotFoundPayload(call.input.s,
                                                   SplitSlashes1(call.input.s))]

\* C11: for every valid state map (flat, string keys, string/int/bool values,
\* the empty map included) decode_cursor(encode_cursor(s)) = s.
C11_RoundTrip ==
    call.op = "roundtrip" => call.value = call.input

\* a state with two keys and a string holding '"' and '\' has made the round trip
C11_Witness ==
    /\ call.op = "roundtrip"
    /\ Len(call.input.fields) = 2
    /\ \E i \in 1..2 : call.input.fields[i].v = JStr("a\"b\\c")
    /\ Len(call.token) % 4 # 0
    /\ call.value = call.input

\* C12: decode_cursor returns None (JNull) or a map for every token and never
\* raises; a token encoding a non-map JSON value (number, string, list) gives None.
C12_Robust ==
    call.op = "decode" => (call.value = JNull \/ call.value.t = "map")

\* the envelope's pagination map
PaginationOf(v) == DictGet(v.fields, "pagination").fields

\* C13: hasMore is len(items) = page_size when no has_more is passed and the
\* passed boolean otherwise; returned = len(items); items is the input page.
C13_FillHeuristic ==
    call.op = "paginate" =>
        /\ DictGet(PaginationOf(call.value), "hasMore")
             = (IF call.has_more = JNull
                THEN JBool(Len(call.items) = call.page_size)
                ELSE call.has_more)
        /\ DictGet(PaginationOf(call.value), "returned") = JInt(Len(call.items))
        /\ DictGet(call.value.fields, "items") = JArr(call.items)

\* a page longer than page_size, no has_more passed: hasMore is false
C13_Witness ==
    /\ call.op = "paginate"
    /\ call.has_more = JNull
    /\ Len(call.items) > call.page_size /\ call.page_size > 0
    /\ DictGet(PaginationOf(call.value), "hasMore") = JBool(FALSE)

\* C14: the envelope holds nextCursor iff hasMore is true and next_state is not
\* null (the empty map included), and then it is encode_cursor(next_state).
C14_CursorPresence ==
    call.op = "paginate" =>
        /\ DictHas(PaginationOf(call.value), "nextCursor")
             <=> (/\ DictGet(PaginationOf(call.value), "hasMore") = JBool(TRUE)
                  /\ call.cursor_data # JNull)
        /\ DictHas(PaginationOf(call.value), "nextCursor")
             => DictGet(PaginationOf(call.value), "nextCursor")
                    = JStr(encode_cursor(call.cursor_data))

\* C17 as stated: is_large_field is true iff the lower-cased name contains a
\* heavy-field pattern and estimate_json_size(value) > threshold.
C17_Original ==
    call.op = "classify" =>
        (call.verdict <=> (/\ MatchesPattern(call.key)
                           /\ estimate_json_size(call.value) > call.threshold))

\* C17 amended: is_large_field is true iff the lower-cased name contains a
\* heavy-field pattern, the value is not None and estimate_json_size(value) > threshold.
C17_Classify ==
    call.op = "classify" =>
        (call.verdict <=> (/\ MatchesPattern(call.key)
                           /\ call.value # JNull
                           /\ estimate_json_size(call.value) > call.threshold))

\* an upper-case name one byte over the threshold is classified large
C17_Witness ==
    /\ call.op = "classify"
    /\ call.key = "RAW_details"
    /\ estimate_json_size(call.value) = call.threshold + 1
    /\ call.verdict

\* the listing being paged through and the number of pages it takes
ListOf(pg) == Slice(Activities, 0, pg.n)
PagesNeeded(pg) == IF pg.n = 0 THEN 1 ELSE (pg.n + pg.limit - 1) \div pg.limit

\* page i of the traversal is items[(i-1)p : ip]; before the last page hasMore is
\* true and nextCursor decodes to offset = the number of items returned so far
PageInOrder(pg, i) ==
    LET resp == pg.responses[i]
        pagination == PaginationOf(resp)
    IN  /\ DictGet(resp.fields, "items").items
             = Slice(ListOf(pg), (i - 1) * pg.limit, i * pg.limit)
        /\ i < PagesNeeded(pg) =>
             /\ DictGet(pagination, "hasMore") = JBool(TRUE)
             /\ DictHas(pagination, "nextCursor")
             /\ decode_cursor(DictGet(pagination, "nextCursor").s).t = "map"
             /\ DictGet(decode_cursor(DictGet(pagination, "nextCursor").s).fields, "offset")
                    = JInt(i * pg.limit)
        /\ i >= PagesNeeded(pg) => ~DictHas(pagination, "nextCursor")

\* C15 as stated: the pages come in order, every page before the last has hasMore
\* and a cursor to the next offset, the last page has hasMore = false and no
\* cursor, every item is returned once and the traversal ends after the last page.
C15_Original ==
    page.op = "listing" =>
        /\ Len(page.responses) <= PagesNeeded(page)
        /\ \A i \in 1..Len(page.responses) :
             /\ PageInOrder(page, i)
             /\ i >= PagesNeeded(page) =>
                  DictGet(PaginationOf(page.responses[i]), "hasMore") = JBool(FALSE)
        /\ page.done => page.got = ListOf(page)

\* C15 amended: as above, but the last page has hasMore = true when it is full
\* (n a positive multiple of the page size) and false otherwise; it never has a cursor.
C15_Traversal ==
    page.op = "listing" =>
        /\ Len(page.responses) <= PagesNeeded(page)
        /\ \A i \in 1..Len(page.responses) :
             /\ PageInOrder(page, i)
             /\ i >= PagesNeeded(page) =>
                  DictGet(PaginationOf(page.responses[i]), "hasMore")
                     = JBool(page.n > 0 /\ page.n % page.limit = 0)
        /\ page.done => page.got = ListOf(page)

\* a traversal of three pages, the last one partial, has returned every item
C15_Witness ==
    /\ page.op = "listing"
    /\ page.done
    /\ Len(page.responses) = 3
    /\ page.n % page.limit # 0
    /\ page.got = ListOf(page)

\* C16: whatever cursor a listing is called with, it returns a page, neither
\* raising nor returning an error; a cursor that does not decode starts at offset 0.
C16_CursorReset ==
    call.op = "list" =>
        /\ call.kind = "return"
        /\ ~DictHas(call.value.fields, "error")
        /\ decode_cursor(call.cursor) = JNull =>
             DictGet(call.value.fields, "items").items
                = Slice(ListOf(page), 0, page.limit)

\* a step of SpecLife in which cleanup_expired runs
SweepStep == phase.op = "phase" /\ ret'.name = "cleanup" /\ now' = now /\ ret'.at = now

\* C18 as stated: cleanup_expired removes exactly the entries with
\* expires_at <= now, leaves every other entry unchanged and returns the number
\* of entries it removed.
C18_Original ==
    [][SweepStep =>
          /\ DOMAIN cache' = {k \in DOMAIN cache : ~(cache[k].expires_at <= now)}
          /\ \A k \in DOMAIN cache' : cache'[k] = cache[k]
          /\ ret'.value = JInt(Cardinality((DOMAIN cache) \ (DOMAIN cache')))
      ]_vars

\* C18 amended: cleanup_expired removes exactly the entries with expires_at < now,
\* leaves every other entry (key, payload and expiry) unchanged and returns None.
C18_Sweep ==
    [][SweepStep =>
          /\ DOMAIN cache' = {k \in DOMAIN cache : ~(cache[k].expires_at < now)}
          /\ \A k \in DOMAIN cache' : cache'[k] = cache[k]
          /\ ret'.value = JNull
      ]_vars

\* a sweep has just deleted an entry and kept one that expires at this instant
C18_Witness ==
    /\ ret.name = "cleanup"
    /\ ret.at = now
    /\ ret.expired # {}
    /\ ret.expired \cap DOMAIN cache = {}
    /\ \E k \in DOMAIN cache : cache[k].expires_at = now

\* C19: the sweeps change no result: every put returns the key, and every get
\* the payload or not-found, that the same call returns in the run without sweeps.
C19_SweepNeutral ==
    (phase.op = "phase" /\ ret.name \in {"store", "get"}) => ret = unswept.ret

\* a get of a key that a sweep has deleted reports not-found, as it does in
\* the run without sweeps, where the get itself evicts the entry
C19_Witness ==
    /\ phase.op = "phase"
    /\ ret.name = "get"
    /\ ret.cache_id \in unswept.swept
    /\ ret.data = JNull
    /\ unswept.ret.data = JNull
    /\ \E k \in DOMAIN unswept.cache : k \notin DOMAIN cache

\* C20: each key goes absent -> stored -> gone and never back; a stored entry's
\* payload and expiry never change; after a get has reported not-found for a key
\* that was stored, every later get of that key reports not-found.
C20_Lifecycle ==
    [][phase.op = "phase" =>
          /\ \A k \in StoreKeys :
                <<phase.of[k], phase'.of[k]>> \in
                    {<<"absent", "absent">>, <<"absent", "stored">>,
                     <<"stored", "stored">>, <<"stored", "gone">>, <<"gone", "gone">>}
          /\ \A k \in (DOMAIN cache) \cap (DOMAIN cache') : cache'[k] = cache[k]
          /\ (ret'.name = "get" /\ ret'.cache_id \in phase.missed /\ ret' # ret)
                => ret'.data = JNull
      ]_vars

\* the names of the fields the splitter diverts, in the input's field order
DivertedNames(data) ==
    LET RECURSIVE From(_)
        From(i) == IF i > Len(data.fields) THEN <<>>
                   ELSE (IF i \in LargeFields(data) THEN <<data.fields[i].k>> ELSE <<>>)
                            \o From(i + 1)
    IN  IF data.t = "map" THEN From(1) ELSE <<>>

\* d without the key k
DictDel(d, k) == SelectSeq(d, LAMBDA f : f.k # k)

\* the map the splitter has built when it computes the metadata: the returned
\* map with "_overflow_info" as the input had it, or without it
BeforeMetadata(input, out) ==
    IF DictHas(input.fields, "_overflow_info")
    THEN DictSet(out.fields, "_overflow_info", DictGet(input.fields, "_overflow_info"))
    ELSE DictDel(out.fields, "_overflow_info")

\* C21 as stated: the output has _overflow_info iff a field was diverted;
\* fields_moved lists the diverted names in input order, original_size_bytes is
\* the input's estimated size and reduced_size_bytes that of the returned map.
C21_Original ==
    (call.op = "split" /\ call.kind = "return" /\ call.input.t = "map")
        => /\ DictHas(call.value.fields, "_overflow_info")
                <=> DivertedNames(call.input) # <<>>
           /\ DivertedNames(call.input) # <<>> =>
                DictGet(call.value.fields, "_overflow_info") =
                    JMap(<< [k |-> "fields_moved", v |-> JStrList(DivertedNames(call.input))],
                            [k |-> "original_size_bytes",
                             v |-> JInt(estimate_json_size(call.input))],
                            [k |-> "reduced_size_bytes",
                             v |-> JInt(estimate_json_size(call.value))] >>)

\* C21 amended: when a field was diverted the output's _overflow_info is the
\* metadata map, whose reduced_size_bytes is the estimated size of the map built
\* before the metadata was attached; when none was diverted the output is the input.
C21_OverflowInfo ==
    (call.op = "split" /\ call.kind = "return" /\ call.input.t = "map")
        => /\ DivertedNames(call.input) = <<>> => call.value = call.input
           /\ DivertedNames(call.input) # <<>> =>
                /\ DictHas(call.value.fields, "_overflow_info")
                /\ DictGet(call.value.fields, "_overflow_info") =
                    JMap(<< [k |-> "fields_moved", v |-> JStrList(DivertedNames(call.input))],
                            [k |-> "original_size_bytes",
                             v |-> JInt(estimate_json_size(call.input))],
                            [k |-> "reduced_size_bytes",
                             v |-> JInt(estimate_json_size(
                                          JMap(BeforeMetadata(call.input, call.value))))] >>)

\* a split has diverted two fields and attached the metadata
C21_Witness ==
    /\ call.op = "split" /\ call.kind = "return" /\ call.input.t = "map"
    /\ Len(DivertedNames(call.input)) = 2
    /\ DictHas(call.value.fields, "_overflow_info")
    /\ DictGet(DictGet(call.value.fields, "_overflow_info").fields, "fields_moved")
          = JStrList(DivertedNames(call.input))

\* C22: estimate_json_size of a value that cannot be serialized is 0, and the
\* guard returns such a result unchanged, writes nothing to the overflow store
\* and raises nothing.
C22_SerializationFailure ==
    (call.op = "guard" /\ ~Serializable(call.input))
        => /\ estimate_json_size(call.input) = 0
           /\ call.kind = "return"
           /\ call.value = call.input
           /\ call.written = {}

\* the guard has returned a result that holds an unserializable value beside a
\* field it would divert if the size could be measured
C22_Witness ==
    /\ call.op = "guard" /\ call.has_cb
    /\ ~Serializable(call.input)
    /\ call.input.t = "map"
    /\ \E i \in 1..Len(call.input.fields) :
          is_large_field(call.input.fields[i].k, call.input.fields[i].v,
                         DiversionThreshold)
    /\ call.kind = "return"
    /\ call.value = call.input

\* the wrapper has returned or raised
RetryDone == retry.op = "retry" => retry.pc \in {"returned", "raised"}

\* the invocations before the last one all failed with errors that are retried
EarlierRetried(n) ==
    \A i \in 1..n : should_retry(retry.errors[i], retry.retry_on)

RetryBound ==
    (retry.op = "retry" /\ retry.max_attempts >= 1) =>
        /\ retry.invocations <= retry.max_attempts
        /\ retry.pc = "invoke" =>
             /\ Len(retry.sleeps) = retry.invocations
             /\ Len(retry.errors) = retry.invocations
             /\ retry.invocations < retry.max_attempts
        /\ retry.pc = "sleep" =>
             /\ Len(retry.sleeps) = retry.invocations - 1
             /\ retry.invocations < retry.max_attempts
        /\ retry.pc = "returned" =>
             /\ Len(retry.errors) = retry.invocations - 1
             /\ EarlierRetried(retry.invocations - 1)
             /\ retry.value = JStr("ok")
             /\ Len(retry.sleeps) = retry.invocations - 1
        /\ retry.pc = "raised" =>
             /\ Len(retry.errors) = retry.invocations
             /\ EarlierRetried(retry.invocations - 1)
             /\ retry.exc = retry.errors[retry.invocations]
             /\ \/ ~should_retry(retry.exc, retry.retry_on)
                \/ retry.invocations = retry.max_attempts
             /\ Len(retry.sleeps) = retry.invocations - 1

\* C23: a call through with_retry(max_attempts = n >= 1) invokes the wrapped
\* function at most n times and ends; it returns at the first success, raises a
\* non-retryable error right after the invocation that raised it, raises the last
\* error after n retryable failures, and sleeps only between two invocations.
C23_RetryBound == []RetryBound /\ <>RetryDone

\* all max_attempts = 3 invocations failed with retryable errors: two sleeps,
\* none after the last invocation, and the last error is raised
C23_Witness ==
    /\ retry.op = "retry" /\ retry.pc = "raised"
    /\ retry.max_attempts = 3 /\ retry.invocations = 3
    /\ should_retry(retry.exc, retry.retry_on)
    /\ Len(retry.sleeps) = 2
    /\ retry.errors[1] # retry.errors[3]

\* C24: with the default retry_on, after an error whose message contains "401",
\* "unauthorized", "authentication", "404" or "not found" the wrapped function
\* is not invoked again.
C24_NoAuthRetry ==
    (retry.op = "retry" /\ retry.retry_on = RetryOnNone) =>
        \A i \in 1..Len(retry.errors) :
            AnyPattern(NoRetryPatterns, Lower(retry.errors[i].msg))
                => /\ i = 1
                   /\ retry.pc = "raised"
                   /\ retry.invocations = 1


\* a map with the key "error"
ErrorResult(v) == v.t = "map" /\ DictHas(v.fields, "error")

\* task t's call returns from its handler in this step
LeaveStep(t) == pc[t] = "fetching" /\ pc'[t] = "idle"

\* a call starts in this step, and the cache key it is made under
EnterStep == response_cache'.calls # response_cache.calls
StepKey ==
    IF pc' = pc THEN call'.key
    ELSE op'[CHOOSE t \in Tasks : pc'[t] # pc[t]].key

C30_SingleFetch ==
    (call.op = "tool" /\ call.h.cached /\ call.fresh_before)
        => (call.hit /\ ~call.invoked)


OwnActivityId(args) ==
    IF DictHas(args, "activity_id") THEN DictGet(args, "activity_id").s ELSE "unknown"

\* C29: a diversion made while guarding a request is namespaced with the
\* activity identifier of that request, never with one set by another request,
\* in every interleaving of guarded requests and for every guarded handler.
C29_OwnNamespace ==
    (call.op = "tool" /\ call.diverted) => call.ns = OwnActivityId(call.args)


\* C26: at most one authentication (_authenticate) is in progress at any time,
\* in every interleaving of tool calls and resource reads.
C26_SingleAuthentication ==
    Cardinality({t \in Tasks : pc[t] = "authenticating"}) <= 1

\* C27: when a tool handler's remote call fails with an authentication error
\* (a message containing "authentication" or "401"), the client and the time
\* of the last authentication are reset, so that the next tool call
\* authenticates afresh before it invokes its handler.
C27_ResetOnAuthFailure ==
    [][\A t \in Tasks :
         (pc[t] = "handler" /\ pc'[t] = "idle" /\ call'.auth_failure)
            => (session'.garmin_client = "None" /\ ~session'.last_auth_time.set)]_vars

====
